---- MODULE Spec2Model ----
(***************************************************************************)
(* Model of nix-package-updater: the structural editor (src/nix/ast.rs),   *)
(* the build-oracle hash extraction (src/nix/builder.rs), the GitHub       *)
(* branch fallback (src/clients/github.rs) and the per-kind update         *)
(* strategies (src/updater/*.rs).                                          *)
(*                                                                         *)
(* Text is modelled byte by byte: a buffer is a sequence of one-character  *)
(* strings, offsets are 0-based and ranges half-open as in Rust.           *)
(***************************************************************************)
EXTENDS Integers, Sequences, FiniteSets, TLC

(***************************************************************************)
(* Text helpers (Rust str operations used by the code).                    *)
(***************************************************************************)

None == [some |-> FALSE]
Some(v) == [some |-> TRUE, v |-> v]

\* &s[from..to] with 0-based half-open offsets
Slice(s, from, to) == SubSeq(s, from + 1, to)

\* s.starts_with(p) at offset i
MatchAt(s, p, i) ==
    /\ i + Len(p) <= Len(s)
    /\ \A k \in 1..Len(p) : s[i + k] = p[k]

\* str::find(pattern): offset of the first occurrence, or -1
Find(s, p) ==
    LET hits == {i \in 0..Len(s) : MatchAt(s, p, i)}
    IN  IF hits = {} THEN -1 ELSE CHOOSE i \in hits : \A j \in hits : i <= j

\* str::contains(pattern)
Contains(s, p) == Find(s, p) >= 0

RECURSIVE Interleave(_, _)
\* str::replace("", to): to before every character and at the end
Interleave(s, to) ==
    IF s = <<>> THEN to ELSE to \o <<Head(s)>> \o Interleave(Tail(s), to)

RECURSIVE ReplaceAll(_, _, _)
\* str::replace(from, to): every non-overlapping occurrence, left to right
ReplaceAll(s, from, to) ==
    IF Len(from) = 0 THEN Interleave(s, to)
    ELSE LET i == Find(s, from)
         IN  IF i < 0 THEN s
             ELSE Slice(s, 0, i) \o to
                    \o ReplaceAll(Slice(s, i + Len(from), Len(s)), from, to)

\* String::replace_range(start..end, with)
ReplaceRange(s, start, end, with) ==
    Slice(s, 0, start) \o with \o Slice(s, end, Len(s))

\* char::is_whitespace on the characters the buffers hold
IsWhitespace(c) == c \in {" ", "\n", "\t"}

RECURSIVE TrimStart(_)
TrimStart(s) ==
    IF Len(s) > 0 /\ IsWhitespace(s[1]) THEN TrimStart(Tail(s)) ELSE s

RECURSIVE TrimEnd(_)
TrimEnd(s) ==
    IF Len(s) > 0 /\ IsWhitespace(s[Len(s)])
    THEN TrimEnd(SubSeq(s, 1, Len(s) - 1)) ELSE s

\* str::trim()
Trim(s) == TrimEnd(TrimStart(s))

\* offset of the first whitespace character, or -1
FindWhitespace(s) ==
    LET hits == {i \in 0..(Len(s) - 1) : IsWhitespace(s[i + 1])}
    IN  IF hits = {} THEN -1 ELSE CHOOSE i \in hits : \A j \in hits : i <= j

RECURSIVE Flatten(_)
Flatten(ss) == IF ss = <<>> THEN <<>> ELSE Head(ss) \o Flatten(Tail(ss))

\* the characters of s that are not c, in order (str::replace(c, ""))
RECURSIVE Without(_, _)
Without(s, c) ==
    IF s = <<>> THEN <<>>
    ELSE IF Head(s) = c THEN Without(Tail(s), c)
         ELSE <<Head(s)>> \o Without(Tail(s), c)

(***************************************************************************)
(* rnix: tokens and the syntax tree.  The grammar covers what the recipes   *)
(* handled by the tool use: attribute sets, let-in, inherit, strings       *)
(* (with ${...} interpolation kept as text), identifiers and function      *)
(* application.  Whitespace is trivia: it is in no token but keeps its     *)
(* bytes in the buffer.  A node is [kind, start, end, children] with the   *)
(* byte range of rowan's text_range().                                     *)
(***************************************************************************)

Quote == "\""

Punct == {"{", "}", "=", ";"}

IsIdentChar(c) == ~IsWhitespace(c) /\ c # Quote /\ c \notin Punct

kLet == <<"l", "e", "t">>
kIn == <<"i", "n">>
kInherit == <<"i", "n", "h", "e", "r", "i", "t">>

\* offset just past the closing quote of the string opening at offset i
StringEnd(c, i) ==
    LET closers == {j \in (i + 1)..(Len(c) - 1) : c[j + 1] = Quote}
    IN  IF closers = {} THEN Len(c)
        ELSE (CHOOSE j \in closers : \A k \in closers : j <= k) + 1

\* offset just past the identifier starting at offset i
IdentEnd(c, i) ==
    LET stops == {j \in i..(Len(c) - 1) : ~IsIdentChar(c[j + 1])}
    IN  IF stops = {} THEN Len(c)
        ELSE CHOOSE j \in stops : \A k \in stops : j <= k

WordKind(w) ==
    IF w = kLet THEN "let"
    ELSE IF w = kIn THEN "in"
    ELSE IF w = kInherit THEN "inherit"
    ELSE "TOKEN_IDENT"

\* the offsets (1-based) of the quote characters
QuoteOffsets(c) == {j \in 1..Len(c) : c[j] = Quote}

\* offset i lies inside a string literal (behind its opening quote)
InsideString(quotes, i) == Cardinality({j \in quotes : j <= i}) % 2 = 1

\* a token starts at offset i
TokenStart(c, quotes, i) ==
    /\ ~IsWhitespace(c[i + 1])
    /\ \/ c[i + 1] = Quote
       \/ c[i + 1] \in Punct
       \/ i = 0
       \/ ~IsIdentChar(c[i])
    /\ ~InsideString(quotes, i)

WordToken(c, i, e) == [k |-> WordKind(Slice(c, i, e)), s |-> i, e |-> e]

TokenAt(c, i) ==
    IF c[i + 1] = Quote THEN [k |-> "TOKEN_STRING", s |-> i, e |-> StringEnd(c, i)]
    ELSE IF c[i + 1] \in Punct THEN [k |-> c[i + 1], s |-> i, e |-> i + 1]
    ELSE WordToken(c, i, IdentEnd(c, i))

\* the tokens starting at the offsets of starts, in order
TokensAt(c, starts) ==
    LET nth(k) == CHOOSE i \in starts : Cardinality({j \in starts : j < i}) = k - 1
    IN  SubSeq([k \in 1..Cardinality(starts) |-> TokenAt(c, nth(k))], 1,
               Cardinality(starts))

StartsIn(c, quotes) == {i \in 0..(Len(c) - 1) : TokenStart(c, quotes, i)}

\* the tokens of the buffer in order, whitespace left out
Lex(c) == TokensAt(c, StartsIn(c, QuoteOffsets(c)))

Node(kind, start, end, children) ==
    [kind |-> kind, start |-> start, end |-> end, children |-> children]

StartsAtom(tok) == tok.k \in {"TOKEN_IDENT", "TOKEN_STRING", "{", "let"}

\* the offset where token p starts (the end of input when there is none)
At(c, t, p) == IF p <= Len(t) THEN t[p].s ELSE Len(c)

RECURSIVE ParseAtom(_, _, _)
RECURSIVE ParseApply(_, _, _, _)
RECURSIVE ParseEntries(_, _, _, _, _)
RECURSIVE ParseInherit(_, _, _, _)

\* f applied to the atom a parsed behind it, then further arguments
ApplyTo(c, t, f, a) ==
    ParseApply(c, t, Node("NODE_APPLY", f.start, a.n.end, <<f, a.n>>), a.p)

ParseApply(c, t, f, p) ==
    IF p <= Len(t) /\ StartsAtom(t[p])
    THEN ApplyTo(c, t, f, ParseAtom(c, t, p))
    ELSE [n |-> f, p |-> p]

\* an expression whose first atom a is parsed
ExprFrom(c, t, a) == ParseApply(c, t, a.n, a.p)

ParseExpr(c, t, p) == ExprFrom(c, t, ParseAtom(c, t, p))

\* { entries }, r the entries parsed up to the closing brace
AttrSetOf(tok, r) == [n |-> Node("NODE_ATTR_SET", tok.s, r.e, r.nodes), p |-> r.p]

\* let entries in body, b the body parsed
LetInOf(tok, r, b) ==
    [n |-> Node("NODE_LET_IN", tok.s, b.n.end, r.nodes \o <<b.n>>), p |-> b.p]

LetBody(c, t, tok, r) == LetInOf(tok, r, ParseExpr(c, t, r.p))

ParseAtom(c, t, p) ==
    IF p > Len(t) \/ ~StartsAtom(t[p])
    THEN [n |-> Node("NODE_ERROR", At(c, t, p), At(c, t, p), <<>>), p |-> p]
    ELSE CASE t[p].k = "TOKEN_IDENT" ->
                [n |-> Node("NODE_IDENT", t[p].s, t[p].e, <<>>), p |-> p + 1]
           [] t[p].k = "TOKEN_STRING" ->
                [n |-> Node("NODE_STRING", t[p].s, t[p].e, <<>>), p |-> p + 1]
           [] t[p].k = "{" ->
                AttrSetOf(t[p], ParseEntries(c, t, p + 1, <<>>, "}"))
           [] t[p].k = "let" ->
                LetBody(c, t, t[p], ParseEntries(c, t, p + 1, <<>>, "in"))

\* inherit a b ... ; : the names are NODE_IDENT children of NODE_INHERIT
ParseInherit(c, t, p, acc) ==
    IF p <= Len(t) /\ t[p].k = "TOKEN_IDENT"
    THEN ParseInherit(c, t, p + 1,
                      acc \o <<Node("NODE_IDENT", t[p].s, t[p].e, <<>>)>>)
    ELSE IF p <= Len(t) /\ t[p].k = ";"
         THEN [nodes |-> acc, p |-> p + 1, e |-> t[p].e]
         ELSE [nodes |-> acc, p |-> p, e |-> At(c, t, p)]

\* the entries behind an inherit statement r that started at token p
AfterInherit(c, t, p, acc, closer, r) ==
    ParseEntries(c, t, r.p, acc \o <<Node("NODE_INHERIT", t[p].s, r.e, r.nodes)>>,
                 closer)

\* the entries behind name = v ; whose name is token p
AfterValue(c, t, p, acc, closer, v) ==
    LET key == Node(IF t[p].k = "TOKEN_IDENT" THEN "NODE_IDENT" ELSE "NODE_STRING",
                    t[p].s, t[p].e, <<>>)
        path == Node("NODE_ATTRPATH", t[p].s, t[p].e, <<key>>)
        semi == v.p <= Len(t) /\ t[v.p].k = ";"
        e == IF semi THEN t[v.p].e ELSE v.n.end
        p2 == IF semi THEN v.p + 1 ELSE v.p
    IN  ParseEntries(c, t, p2,
                     acc \o <<Node("NODE_ATTRPATH_VALUE", t[p].s, e, <<path, v.n>>)>>,
                     closer)

ParseEntries(c, t, p, acc, closer) ==
    IF p > Len(t) THEN [nodes |-> acc, p |-> p, e |-> Len(c)]
    ELSE IF t[p].k = closer THEN [nodes |-> acc, p |-> p + 1, e |-> t[p].e]
    ELSE IF t[p].k = "inherit"
         THEN AfterInherit(c, t, p, acc, closer, ParseInherit(c, t, p + 1, <<>>))
    ELSE IF t[p].k \in {"TOKEN_IDENT", "TOKEN_STRING"}
         THEN AfterValue(c, t, p, acc, closer,
                         ParseExpr(c, t, IF p + 1 <= Len(t) /\ t[p + 1].k = "="
                                         THEN p + 2 ELSE p + 1))
    ELSE ParseEntries(c, t, p + 1, acc, closer)

RootOf(c, r) == [text |-> c, root |-> Node("NODE_ROOT", 0, Len(c), <<r.n>>)]

\* rnix::Root::parse: the tree together with the text it was parsed from
\* (rowan nodes answer text() from the tree, not from the editor's buffer)
Parse(c) == RootOf(c, ParseExpr(c, Lex(c), 1))

\* SyntaxNode::text()
Text(ast, n) == Slice(ast.text, n.start, n.end)

RECURSIVE Descendants(_)
RECURSIVE DescendantsOfAll(_)
\* SyntaxNode::descendants(): the node itself and every node below, pre-order
Descendants(n) == <<n>> \o DescendantsOfAll(n.children)
DescendantsOfAll(ns) ==
    IF ns = <<>> THEN <<>>
    ELSE Descendants(Head(ns)) \o DescendantsOfAll(Tail(ns))

OfKind(ns, kind) == SelectSeq(ns, LAMBDA n : n.kind = kind)

(***************************************************************************)
(* The structural editor, src/nix/ast.rs.  An Ast value is                 *)
(* [content, ast]: the text buffer and the parse tree the struct holds.    *)
(***************************************************************************)

\* Ast::from_ast: content = ast.tree().to_string() (rnix trees are lossless)
from_ast(ast) == [content |-> ast.text, ast |-> ast]

\* extract_string_value: node.text().to_string().replace('"', "")
extract_string_value(ast, node) == Without(Text(ast, node), Quote)

kInterpolOpen == <<"$", "{">>
kInterpolClose == <<"}">>

\* content.contains("${") && content.contains('}')
IsInterpolated(text) == Contains(text, kInterpolOpen) /\ Contains(text, kInterpolClose)

\* Quoted that writes the value bare, without the quotes
QuotedBare(v) == v

\* format!("\"{new_value}\"")
Quoted(v) == <<Quote>> \o v \o <<Quote>>

\* attr_child.first_child() of a NODE_ATTRPATH whose text is attr_name
PathNames(ast, path, attr_name) ==
    /\ Len(path.children) > 0
    /\ Text(ast, path.children[1]) = attr_name

RECURSIVE SetScanChildrenNoGuard(_, _, _, _, _, _)
\* SetScanChildren without the interpolation guard
SetScanChildrenNoGuard(ast, kids, i, found_attr, attr_name, old_value) ==
    IF i > Len(kids) THEN [r |-> "none"]
    ELSE LET k == kids[i]
         IN  IF k.kind = "NODE_ATTRPATH"
             THEN SetScanChildrenNoGuard(ast, kids, i + 1,
                                         found_attr \/ PathNames(ast, k, attr_name),
                                         attr_name, old_value)
             ELSE IF k.kind = "NODE_STRING" /\ found_attr
                     /\ extract_string_value(ast, k) = old_value
             THEN [r |-> "hit", node |-> k]
             ELSE SetScanChildrenNoGuard(ast, kids, i + 1, found_attr, attr_name,
                                         old_value)

RECURSIVE SetScanChildrenAnyName(_, _, _, _, _, _)
\* SetScanChildren without the found_attr test
SetScanChildrenAnyName(ast, kids, i, found_attr, attr_name, old_value) ==
    IF i > Len(kids) THEN [r |-> "none"]
    ELSE LET k == kids[i]
         IN  IF k.kind = "NODE_STRING" /\ extract_string_value(ast, k) = old_value
             THEN IF IsInterpolated(Text(ast, k)) THEN [r |-> "noop"]
                  ELSE [r |-> "hit", node |-> k]
             ELSE SetScanChildrenAnyName(ast, kids, i + 1, found_attr, attr_name,
                                         old_value)

RECURSIVE SetScanChildren(_, _, _, _, _, _)
\* the inner loop of Ast::set over child.children(): "none" (no string_node),
\* "noop" (the interpolation guard returned Ok) or "hit" with the string node
SetScanChildren(ast, kids, i, found_attr, attr_name, old_value) ==
    IF i > Len(kids) THEN [r |-> "none"]
    ELSE LET k == kids[i]
         IN  IF k.kind = "NODE_ATTRPATH"
             THEN SetScanChildren(ast, kids, i + 1,
                                  found_attr \/ PathNames(ast, k, attr_name),
                                  attr_name, old_value)
             ELSE IF k.kind = "NODE_STRING" /\ found_attr
                     /\ extract_string_value(ast, k) = old_value
             THEN IF IsInterpolated(Text(ast, k)) THEN [r |-> "noop"]
                  ELSE [r |-> "hit", node |-> k]
             ELSE SetScanChildren(ast, kids, i + 1, found_attr, attr_name, old_value)

\* SetReplace without the re-parse
SetReplaceStale(a, node, new_value) ==
    [content |-> ReplaceRange(a.content, node.start, node.end, Quoted(new_value)),
     ast |-> a.ast]

\* the replacement of Ast::set: replace_range, then re-parse
SetReplace(a, node, new_value) ==
    LET content == ReplaceRange(a.content, node.start, node.end, Quoted(new_value))
    IN  [content |-> content, ast |-> Parse(content)]

RECURSIVE SetScan(_, _, _, _, _, _)

\* what Ast::set does once the inner loop over entry i ended with r
SetEntryDone(a, entries, i, attr_name, old_value, new_value, r) ==
    IF r.r = "noop" THEN [ok |-> TRUE, a |-> a]
    ELSE IF r.r = "hit" THEN [ok |-> TRUE, a |-> SetReplace(a, r.node, new_value)]
    ELSE SetScan(a, entries, i + 1, attr_name, old_value, new_value)

\* the outer loop of Ast::set over the NODE_ATTRPATH_VALUE descendants
SetScan(a, entries, i, attr_name, old_value, new_value) ==
    IF i > Len(entries) THEN [ok |-> FALSE, a |-> a]
    ELSE SetEntryDone(a, entries, i, attr_name, old_value, new_value,
                      SetScanChildren(a.ast, entries[i].children, 1, FALSE,
                                      attr_name, old_value))

\* Ast::set(attr_name, old_value, new_value): [ok, a]; ok = FALSE is the
\* "Attribute ... not found" error
set(a, attr_name, old_value, new_value) ==
    SetScan(a, OfKind(Descendants(a.ast.root), "NODE_ATTRPATH_VALUE"), 1,
            attr_name, old_value, new_value)

RECURSIVE GetKeyValue(_, _, _, _, _, _)
\* the loop of get_internal over attr_child.children(): [key, value]
GetKeyValue(ast, kids, i, key, value, attr_name) ==
    IF i > Len(kids) THEN [key |-> key, value |-> value]
    ELSE LET k == kids[i]
         IN  IF k.kind = "NODE_ATTRPATH"
             THEN GetKeyValue(ast, kids, i + 1, key \/ PathNames(ast, k, attr_name),
                              value, attr_name)
             ELSE IF k.kind = "NODE_STRING"
             THEN GetKeyValue(ast, kids, i + 1, key,
                              Some(extract_string_value(ast, k)), attr_name)
             ELSE IF k.kind = "NODE_IDENT"
             THEN GetKeyValue(ast, kids, i + 1, key, Some(Text(ast, k)), attr_name)
             ELSE GetKeyValue(ast, kids, i + 1, key, value, attr_name)

RECURSIVE FirstSome(_)
\* the first Some of a sequence of options (an early return out of a loop)
FirstSome(opts) ==
    IF opts = <<>> THEN None
    ELSE IF Head(opts).some THEN Head(opts) ELSE FirstSome(Tail(opts))

\* KeyedValue without the key test
KeyedValueAnyKey(kv) == kv.value

\* the early return of get_internal: key.is_some() && value.is_some()
KeyedValue(kv) == IF kv.key /\ kv.value.some THEN kv.value ELSE None

\* get_internal on the entries of one NODE_ATTR_SET
GetInSet(ast, entries, attr_name) ==
    FirstSome([j \in 1..Len(entries) |->
                 KeyedValue(GetKeyValue(ast, entries[j].children, 1, FALSE, None,
                                        attr_name))])

\* get_internal over the NODE_ATTR_SET descendants
GetInSets(ast, sets, attr_name) ==
    FirstSome([j \in 1..Len(sets) |->
                 GetInSet(ast, OfKind(sets[j].children, "NODE_ATTRPATH_VALUE"),
                          attr_name)])

\* Ast::get_internal
get_internal(a, attr_name) ==
    GetInSets(a.ast, OfKind(Descendants(a.ast.root), "NODE_ATTR_SET"), attr_name)

\* the bindings of a NODE_LET_IN whose first child reads binding_name
LetBindings(ast, n, binding_name) ==
    IF n.kind # "NODE_LET_IN" THEN <<>>
    ELSE SelectSeq(n.children,
                   LAMBDA b : /\ b.kind = "NODE_ATTRPATH_VALUE"
                              /\ Len(b.children) > 0
                              /\ Text(ast, b.children[1]) = binding_name)

\* the first NODE_STRING child of a binding, extracted
BindingString(ast, strs) ==
    IF strs = <<>> THEN None ELSE Some(extract_string_value(ast, strs[1]))

\* the let check of get_from_let_or_inherit on one node
FromLet(ast, bindings) ==
    FirstSome([j \in 1..Len(bindings) |->
                 BindingString(ast, OfKind(bindings[j].children, "NODE_STRING"))])

\* the inherit check of get_from_let_or_inherit on one node
Inherits(ast, n, binding_name) ==
    /\ n.kind = "NODE_INHERIT"
    /\ \E j \in 1..Len(n.children) :
         /\ n.children[j].kind = "NODE_IDENT"
         /\ Text(ast, n.children[j]) = binding_name

RECURSIVE LetOrInheritScan(_, _, _, _)

LetOrInheritNode(a, nodes, i, binding_name, fromLet) ==
    IF fromLet.some THEN fromLet
    ELSE IF Inherits(a.ast, nodes[i], binding_name) THEN None
    ELSE LetOrInheritScan(a, nodes, i + 1, binding_name)

\* the loop of get_from_let_or_inherit over the descendants
LetOrInheritScan(a, nodes, i, binding_name) ==
    IF i > Len(nodes) THEN None
    ELSE LetOrInheritNode(a, nodes, i, binding_name,
                          FromLet(a.ast, LetBindings(a.ast, nodes[i], binding_name)))

\* Ast::get_from_let_or_inherit
get_from_let_or_inherit(a, binding_name) ==
    LetOrInheritScan(a, Descendants(a.ast.root), 1, binding_name)

GetOr(a, field_name, v) ==
    IF v.some THEN v ELSE get_from_let_or_inherit(a, field_name)

\* Ast::get(field_name): an option
get(a, field_name) == GetOr(a, field_name, get_internal(a, field_name))

kPlatformData == <<"p", "l", "a", "t", "f", "o", "r", "m", "D", "a", "t", "a">>
kDists == <<"d", "i", "s", "t", "s">>

RECURSIVE TrimMatchesQuote(_)
\* str::trim_matches('"')
TrimMatchesQuote(s) ==
    IF Len(s) > 0 /\ s[1] = Quote THEN TrimMatchesQuote(Tail(s))
    ELSE IF Len(s) > 0 /\ s[Len(s)] = Quote
         THEN TrimMatchesQuote(SubSeq(s, 1, Len(s) - 1))
    ELSE s

\* the map after HashMap::insert(k, v)
Insert(m, k, v) == [x \in DOMAIN m \cup {k} |-> IF x = k THEN v ELSE m[x]]

EmptyMap == [x \in {} |-> <<>>]

\* entries of a node that are NODE_ATTRPATH_VALUE and have a first child
EntriesOf(n) ==
    SelectSeq(n.children,
              LAMBDA e : e.kind = "NODE_ATTRPATH_VALUE" /\ Len(e.children) > 0)

RECURSIVE PlatformAttrs(_, _, _, _)
\* the inserts of one platform attr set into platform_attrs: for each
\* attribute, its first NODE_STRING child
PlatformAttrs(ast, attrs, i, m) ==
    IF i > Len(attrs) THEN m
    ELSE LET attr == attrs[i]
             strs == OfKind(attr.children, "NODE_STRING")
         IN  PlatformAttrs(ast, attrs, i + 1,
                 IF strs = <<>> THEN m
                 ELSE Insert(m, Text(ast, attr.children[1]),
                             extract_string_value(ast, strs[1])))

RECURSIVE PlatformValues(_, _, _, _)
\* platform_attrs of one platform entry: every NODE_ATTR_SET child of it
PlatformValues(ast, values, i, m) ==
    IF i > Len(values) THEN m
    ELSE PlatformValues(ast, values, i + 1,
                        PlatformAttrs(ast, EntriesOf(values[i]), 1, m))

\* PlatformBlocksOf without the !platform_attrs.is_empty() test
PlatformBlocksOfKeepEmpty(ast, container) ==
    LET sets == OfKind(container.children, "NODE_ATTR_SET")
        entries == IF sets = <<>> THEN <<>> ELSE EntriesOf(sets[1])
    IN  [j \in 1..Len(entries) |->
           [platform_name |-> TrimMatchesQuote(Text(ast, entries[j].children[1])),
            attributes |-> PlatformValues(ast,
                               OfKind(entries[j].children, "NODE_ATTR_SET"), 1,
                               EmptyMap)]]

\* the blocks pushed for one platformData/dists container
PlatformBlocksOf(ast, container) ==
    LET sets == OfKind(container.children, "NODE_ATTR_SET")
        entries == IF sets = <<>> THEN <<>> ELSE EntriesOf(sets[1])
        block(e) == [platform_name |-> TrimMatchesQuote(Text(ast, e.children[1])),
                     attributes |-> PlatformValues(ast,
                                        OfKind(e.children, "NODE_ATTR_SET"), 1, EmptyMap)]
        all == [j \in 1..Len(entries) |-> block(entries[j])]
    IN  SelectSeq(all, LAMBDA b : DOMAIN b.attributes # {})

\* Ast::platforms(): the Vec<PlatformBlock>
platforms(a) ==
    LET containers ==
            SelectSeq(EntriesOf([children |-> Descendants(a.ast.root)]),
                      LAMBDA e : Text(a.ast, e.children[1]) \in {kPlatformData, kDists})
    IN  Flatten([j \in 1..Len(containers) |-> PlatformBlocksOf(a.ast, containers[j])])

kRev == <<"r", "e", "v">>
kVersion == <<"v", "e", "r", "s", "i", "o", "n">>
kHash == <<"h", "a", "s", "h">>

\* unwrap_or_default()
UnwrapOrDefault(opt) == IF opt.some THEN opt.v ELSE <<>>

GitVersionStepWhole(r1, old_rev, new_rev, current_version) ==
    IF current_version.some
    THEN set(r1.a, kVersion, current_version.v, new_rev)
    ELSE r1

\* update_git, the version step: r1 is the result of set("rev", ...)
GitVersionStep(r1, old_rev, new_rev, current_version) ==
    IF current_version.some /\ Contains(current_version.v, old_rev)
    THEN set(r1.a, kVersion, current_version.v,
             ReplaceAll(current_version.v, old_rev, new_rev))
    ELSE r1

GitAfterRev(r1, old_rev, new_rev) ==
    IF ~r1.ok THEN r1
    ELSE GitVersionStep(r1, old_rev, new_rev, get(r1.a, kVersion))

\* update_git, the revision step
GitRevStep(a, old_rev, new_rev) ==
    IF old_rev.some /\ Len(new_rev) > 0
    THEN GitAfterRev(set(a, kRev, old_rev.v, new_rev), old_rev.v, new_rev)
    ELSE [ok |-> TRUE, a |-> a]

GitSetHashAlways(r, old_hash_value, new_hash) ==
    set(r.a, kHash, old_hash_value, new_hash)

\* update_git: if !old_hash_value.is_empty() && !new_hash.is_empty()
GitSetHash(r, old_hash_value, new_hash) ==
    IF Len(old_hash_value) > 0 /\ Len(new_hash) > 0
    THEN set(r.a, kHash, old_hash_value, new_hash)
    ELSE r

\* update_git, the hash step: r is the result of the revision step
GitHashStep(r, new_hash, old_hash) ==
    IF ~r.ok THEN r
    ELSE IF old_hash.some THEN GitSetHash(r, old_hash.v, new_hash)
    ELSE GitSetHash(r, UnwrapOrDefault(get(r.a, kHash)), new_hash)

\* Ast::update_git(old_rev, new_rev, new_hash, old_hash): [ok, a]; on an
\* error of a set (the ? operator) the edits made before it stay in a
update_git(a, old_rev, new_rev, new_hash, old_hash) ==
    GitHashStep(GitRevStep(a, old_rev, new_rev), new_hash, old_hash)

(***************************************************************************)
(* The build oracle: the hash the builder reports after "got:".            *)
(***************************************************************************)

kGot == <<"g", "o", "t", ":">>
kHashSuffix == <<"H", "a", "s", "h">>

\* src/nix/builder.rs extract_hash_from_error: an option
extract_hash_from_error(stderr) ==
    LET pos == Find(stderr, kGot)
        after_got == Trim(Slice(stderr, pos + 4, Len(stderr)))
        end == FindWhitespace(after_got)
    IN  IF pos < 0 THEN None
        ELSE IF end >= 0 THEN Some(Slice(after_got, 0, end))
        ELSE Some(after_got)

RECURSIVE Lines(_)
\* str::lines(): split at "\n", no empty last line after a final "\n"
Lines(s) ==
    IF s = <<>> THEN <<>>
    ELSE LET nl == Find(s, <<"\n">>)
         IN  IF nl < 0 THEN <<s>>
             ELSE <<Slice(s, 0, nl)>> \o Lines(Slice(s, nl + 1, Len(s)))

\* the closure of update_vendor's find_map on one line:
\* Some(l.trim().split_once("got:")?.1.trim().to_string())
VendorLineHash(l) ==
    LET t == Trim(l)
        pos == Find(t, kGot)
    IN  IF pos < 0 THEN None
        ELSE Some(Trim(Slice(t, pos + Len(kGot), Len(t))))

\* stderr.lines().find_map(...) of Ast::update_vendor
VendorHash(stderr) ==
    LET ls == Lines(stderr)
    IN  FirstSome([j \in 1..Len(ls) |-> VendorLineHash(ls[j])])

Wrote(r) == [ok |-> r.ok, a |-> r.a, wrote |-> TRUE]

\* update_vendor once the builder failed with new_hash in its diagnostics
VendorSet(a, attr_name, new_hash, old_hash) ==
    IF old_hash.some THEN Wrote(set(a, attr_name, old_hash.v, new_hash))
    ELSE Wrote(set(a, attr_name, <<>>, new_hash))

VendorBuilt(a, attr_name, build, new_hash) ==
    IF build.success \/ ~new_hash.some THEN [ok |-> TRUE, a |-> a, wrote |-> TRUE]
    ELSE VendorSet(a, attr_name, new_hash.v, get(a, attr_name))

\* Ast::update_vendor(package, hash_type, pb) with the outcome of the file
\* write and of `nix build`: [ok, a, wrote]; wrote tells that the buffer
\* a.content reached the recipe file before the build
update_vendor(a, hash_type, write_ok, build) ==
    IF ~write_ok THEN [ok |-> FALSE, a |-> a, wrote |-> FALSE]
    ELSE VendorBuilt(a, hash_type \o kHashSuffix, build, VendorHash(build.stderr))

(***************************************************************************)
(* Recipes the model starts from.                                          *)
(***************************************************************************)

\* { pname = "foo";   version = "1.0";   hash = "h1"; }
RecipeSimple ==
    <<"{", " ", "p", "n", "a", "m", "e", " ", "=", " ", "\"", "f", "o", "o", "\"", ";", "\n", " ", " ", "v", "e", "r", "s", "i", "o", "n", " ", "=", " ", "\"", "1", ".", "0", "\"", ";", "\n", " ", " ", "h", "a", "s", "h", " ", "=", " ", "\"", "h", "1", "\"", ";", "\n", "}">>

\* { version = "1.0";   platformData = {     linux = { filename = "a"; hash = "h1"; };     mac = { filename = "b"; hash = "h2"; };     win = { src = f; };   };   meta = { hash = "h3"; }; }
RecipePlatforms ==
    <<"{", " ", "v", "e", "r", "s", "i", "o", "n", " ", "=", " ", "\"", "1", ".", "0", "\"", ";", "\n", " ", " ", "p", "l", "a", "t", "f", "o", "r", "m", "D", "a", "t", "a", " ", "=", " ", "{", "\n", " ", " ", " ", " ", "l", "i", "n", "u", "x", " ", "=", " ", "{", " ", "f", "i", "l", "e", "n", "a", "m", "e", " ", "=", " ", "\"", "a", "\"", ";", " ", "h", "a", "s", "h", " ", "=", " ", "\"", "h", "1", "\"", ";", " ", "}", ";", "\n", " ", " ", " ", " ", "m", "a", "c", " ", "=", " ", "{", " ", "f", "i", "l", "e", "n", "a", "m", "e", " ", "=", " ", "\"", "b", "\"", ";", " ", "h", "a", "s", "h", " ", "=", " ", "\"", "h", "2", "\"", ";", " ", "}", ";", "\n", " ", " ", " ", " ", "w", "i", "n", " ", "=", " ", "{", " ", "s", "r", "c", " ", "=", " ", "f", ";", " ", "}", ";", "\n", " ", " ", "}", ";", "\n", " ", " ", "m", "e", "t", "a", " ", "=", " ", "{", " ", "h", "a", "s", "h", " ", "=", " ", "\"", "h", "3", "\"", ";", " ", "}", ";", "\n", "}">>

\* { pname = "foo";   version = "0-abc";   src = f { rev = "abc"; hash = "h1"; };   vendorHash = "h2"; }
RecipeGit ==
    <<"{", " ", "p", "n", "a", "m", "e", " ", "=", " ", "\"", "f", "o", "o", "\"", ";", "\n", " ", " ", "v", "e", "r", "s", "i", "o", "n", " ", "=", " ", "\"", "0", "-", "a", "b", "c", "\"", ";", "\n", " ", " ", "s", "r", "c", " ", "=", " ", "f", " ", "{", " ", "r", "e", "v", " ", "=", " ", "\"", "a", "b", "c", "\"", ";", " ", "h", "a", "s", "h", " ", "=", " ", "\"", "h", "1", "\"", ";", " ", "}", ";", "\n", " ", " ", "v", "e", "n", "d", "o", "r", "H", "a", "s", "h", " ", "=", " ", "\"", "h", "2", "\"", ";", "\n", "}">>

\* { version = "1.0-${rev}";   rev = "abc";   passthru = { version = "1.0"; }; }
RecipeInterpolated ==
    <<"{", " ", "v", "e", "r", "s", "i", "o", "n", " ", "=", " ", "\"", "1", ".", "0", "-", "$", "{", "r", "e", "v", "}", "\"", ";", "\n", " ", " ", "r", "e", "v", " ", "=", " ", "\"", "a", "b", "c", "\"", ";", "\n", " ", " ", "p", "a", "s", "s", "t", "h", "r", "u", " ", "=", " ", "{", " ", "v", "e", "r", "s", "i", "o", "n", " ", "=", " ", "\"", "1", ".", "0", "\"", ";", " ", "}", ";", "\n", "}">>

\* { src = f { hash = "h1"; };   hash = "h1";   repo = pname; }
RecipeNested ==
    <<"{", " ", "s", "r", "c", " ", "=", " ", "f", " ", "{", " ", "h", "a", "s", "h", " ", "=", " ", "\"", "h", "1", "\"", ";", " ", "}", ";", "\n", " ", " ", "h", "a", "s", "h", " ", "=", " ", "\"", "h", "1", "\"", ";", "\n", " ", " ", "r", "e", "p", "o", " ", "=", " ", "p", "n", "a", "m", "e", ";", "\n", "}">>

\* let version = "1.0"; in { inherit version;   hash = "h1"; }
RecipeLet ==
    <<"l", "e", "t", " ", "v", "e", "r", "s", "i", "o", "n", " ", "=", " ", "\"", "1", ".", "0", "\"", ";", " ", "i", "n", "\n", "{", " ", "i", "n", "h", "e", "r", "i", "t", " ", "v", "e", "r", "s", "i", "o", "n", ";", "\n", " ", " ", "h", "a", "s", "h", " ", "=", " ", "\"", "h", "1", "\"", ";", "\n", "}">>

(***************************************************************************)
(* State.                                                                  *)
(*   editor  the Ast struct of src/nix/ast.rs: [content, ast]              *)
(*   file    the recipe file on disk (package.path)                        *)
(*   last    the last editor call: its arguments, its result and the       *)
(*           editor before it                                              *)
(*   steps   the number of calls made so far                               *)
(*   config  the Config of the run (its force flag)                        *)
(*   upstream what the outside world answers: the references of the        *)
(*           repository, the registries, the prefetch and build commands   *)
(*   package the discovered Package, None before discovery                 *)
(***************************************************************************)
VARIABLES editor, file, last, steps, config, upstream, package

vars == <<editor, file, last, steps, config, upstream, package>>

\* the number of editor calls in one behaviour
MaxOps == 2

Recipes ==
    {RecipeSimple, RecipePlatforms, RecipeGit, RecipeInterpolated, RecipeNested,
     RecipeLet}

kVendorHash == <<"v", "e", "n", "d", "o", "r", "H", "a", "s", "h">>
kVendor == <<"v", "e", "n", "d", "o", "r">>
kCargo == <<"c", "a", "r", "g", "o">>

AttrNames == {kVersion, kHash, kRev, kVendorHash}

OldValues ==
    {<<"1", ".", "0">>, <<"h", "1">>, <<"a", "b", "c">>, <<"1", ".", "0", "-", "$", "{", "r", "e", "v", "}">>}

NewValues == {<<"2", ".", "0">>, <<"x", "$", "{", "y", "}">>}

RevValues == {<<>>, <<"d", "e", "f">>}

HashValues == {<<>>, <<"h", "9">>}

\* what `nix build` can answer: success, or a failure with these diagnostics
BuildOutcomes ==
    {[success |-> TRUE, stderr |-> <<>>],
     [success |-> FALSE, stderr |-> <<"e", "r", "r", "o", "r", ":", " ", "m", "i", "s", "m", "a", "t", "c", "h", "\n", " ", " ", "s", "p", "e", "c", "i", "f", "i", "e", "d", ":", " ", "h", "0", "\n", " ", " ", "g", "o", "t", ":", " ", "h", "9", "\n">>],
     [success |-> FALSE, stderr |-> <<"e", "r", "r", "o", "r", ":", " ", "b", "o", "o", "m">>]}

InitAst ==
    /\ \E r \in Recipes :
         /\ editor = from_ast(Parse(r))
         /\ file = r
    /\ last = [op |-> "init"]
    /\ steps = 0
    /\ config = [force |-> FALSE]
    /\ upstream = None
    /\ package = None

\* a call of Ast::set
Set(attr_name, old_value, new_value) ==
    /\ steps < MaxOps
    /\ LET r == set(editor, attr_name, old_value, new_value)
       IN  /\ editor' = r.a
           /\ last' = [op |-> "set", name |-> attr_name, old |-> old_value,
                       new |-> new_value, ok |-> r.ok, pre |-> editor]
    /\ steps' = steps + 1
    /\ UNCHANGED <<file, config, upstream, package>>

\* a call of Ast::update_git
UpdateGit(old_rev, new_rev, new_hash, old_hash) ==
    /\ steps < MaxOps
    /\ LET r == update_git(editor, old_rev, new_rev, new_hash, old_hash)
       IN  /\ editor' = r.a
           /\ last' = [op |-> "update_git", old_rev |-> old_rev, new_rev |-> new_rev,
                       new_hash |-> new_hash, old_hash |-> old_hash,
                       ok |-> r.ok, pre |-> editor]
    /\ steps' = steps + 1
    /\ UNCHANGED <<file, config, upstream, package>>

\* a call of Ast::update_vendor: the write of the buffer to the recipe file,
\* the build and the edit are one call
UpdateVendor(hash_type, write_ok, build) ==
    /\ steps < MaxOps
    /\ LET r == update_vendor(editor, hash_type, write_ok, build)
       IN  /\ editor' = r.a
           /\ file' = IF r.wrote THEN editor.content ELSE file
           /\ last' = [op |-> "update_vendor", hash_type |-> hash_type,
                       build |-> build, ok |-> r.ok, wrote |-> r.wrote,
                       pre |-> editor]
    /\ steps' = steps + 1
    /\ UNCHANGED <<config, upstream, package>>

NextAst ==
    \/ \E n \in AttrNames, o \in OldValues, v \in NewValues : Set(n, o, v)
    \/ \E or \in {None} \cup {Some(v) : v \in {<<"a", "b", "c">>}}, nr \in RevValues,
          nh \in HashValues, oh \in {None} \cup {Some(v) : v \in {<<"h", "1">>}} :
         UpdateGit(or, nr, nh, oh)
    \/ \E t \in {kVendor, kCargo}, w \in BOOLEAN, b \in BuildOutcomes :
         UpdateVendor(t, w, b)

SpecAst == InitAst /\ [][NextAst]_vars

(***************************************************************************)
(* Properties of the editor, stated over the tree rather than over the     *)
(* loops of Ast::set and Ast::get.                                         *)
(***************************************************************************)

\* the elements of a sequence
Range(seq) == {seq[i] : i \in 1..Len(seq)}

\* the attribute entries of a tree, let bindings included
AttrEntries(ast) == Range(OfKind(Descendants(ast.root), "NODE_ATTRPATH_VALUE"))

\* entry e is named name: the first component of its path reads name
EntryNamed(ast, e, name) ==
    \E p \in Range(e.children) : p.kind = "NODE_ATTRPATH" /\ PathNames(ast, p, name)

\* the direct string values of the attributes named name
StringsNamed(ast, name) ==
    {s \in UNION {Range(e.children) : e \in {x \in AttrEntries(ast) : EntryNamed(ast, x, name)}} :
       s.kind = "NODE_STRING"}

\* the direct string values of the attributes named name that equal old
MatchesOf(a, name, old) ==
    {s \in StringsNamed(a.ast, name) : extract_string_value(a.ast, s) = old}

\* the first of them in the buffer
FirstMatch(a, name, old) ==
    CHOOSE s \in MatchesOf(a, name, old) : \A t \in MatchesOf(a, name, old) : s.start <= t.start

\* the buffer c with the span of node s replaced by the quoted value
SpanReplaced(c, s, new) ==
    Slice(c, 0, s.start) \o <<Quote>> \o new \o <<Quote>> \o Slice(c, s.end, Len(c))

\* the inherit statements of a tree that name binding_name
InheritsOf(ast, name) ==
    {n \in Range(Descendants(ast.root)) : Inherits(ast, n, name)}

\* the last call was a successful Ast::set whose first match was a plain string
PlainSetDone ==
    /\ last.op = "set"
    /\ last.ok
    /\ MatchesOf(last.pre, last.name, last.old) # {}
    /\ ~IsInterpolated(Text(last.pre.ast, FirstMatch(last.pre, last.name, last.old)))

C2_OneSpanReplaced ==
    (last.op = "set" /\ last.ok)
    => /\ MatchesOf(last.pre, last.name, last.old) # {}
       /\ editor.content =
            SpanReplaced(last.pre.content,
                         FirstMatch(last.pre, last.name, last.old), last.new)

\* C2 amended: a successful set(name, old, new) whose first match is a string
\* without interpolation replaces exactly that span with the quoted new value;
\* when the first match is an interpolated string it replaces nothing
C2_OneSpanOrNothing ==
    (last.op = "set" /\ last.ok)
    => /\ MatchesOf(last.pre, last.name, last.old) # {}
       /\ editor.content =
            IF IsInterpolated(Text(last.pre.ast,
                                   FirstMatch(last.pre, last.name, last.old)))
            THEN last.pre.content
            ELSE SpanReplaced(last.pre.content,
                              FirstMatch(last.pre, last.name, last.old), last.new)

C2_Witness ==
    /\ PlainSetDone
    /\ Cardinality(MatchesOf(last.pre, last.name, last.old)) > 1
    /\ editor.content # last.pre.content
    /\ editor.content =
         SpanReplaced(last.pre.content, FirstMatch(last.pre, last.name, last.old),
                      last.new)

\* the attributes named name whose string value is interpolated
InterpolatedNamed(ast, name) ==
    {s \in StringsNamed(ast, name) : IsInterpolated(Text(ast, s))}

\* C3 as stated: Ast::set(name, old, new) on a buffer in which an attribute
\* named name holds an interpolated string never modifies the buffer, whatever
\* old is
C3_GuardNeverModifies ==
    (last.op = "set" /\ InterpolatedNamed(last.pre.ast, last.name) # {})
    => editor.content = last.pre.content

\* C3 amended: Ast::set(name, old, new) never modifies the text of an
\* interpolated string of an attribute named name, and it leaves the whole
\* buffer as it was unless another attribute named name holds a string
\* without interpolation that equals old
C3_GuardKeepsInterpolated ==
    (last.op = "set" /\ InterpolatedNamed(last.pre.ast, last.name) # {})
    => /\ \A s \in InterpolatedNamed(last.pre.ast, last.name) :
            \E t \in InterpolatedNamed(editor.ast, last.name) :
               /\ Text(editor.ast, t) = Text(last.pre.ast, s)
               /\ Slice(editor.content, 0, t.start) = Slice(last.pre.content, 0, s.start)
                  \/ Slice(editor.content, t.end, Len(editor.content))
                       = Slice(last.pre.content, s.end, Len(last.pre.content))
       /\ (\A s \in MatchesOf(last.pre, last.name, last.old) :
              IsInterpolated(Text(last.pre.ast, s)))
          => editor.content = last.pre.content

C3_Witness ==
    /\ last.op = "set"
    /\ last.ok
    /\ last.new # last.old
    /\ MatchesOf(last.pre, last.name, last.old) # {}
    /\ IsInterpolated(Text(last.pre.ast, FirstMatch(last.pre, last.name, last.old)))
    /\ editor = last.pre

\* C4: Ast::set(name, old, new) fails with the not-found error exactly when no
\* attribute named name holds a string equal to old, and on that error the
\* buffer and the tree stay as they were
C4_NotFoundExactly ==
    last.op = "set"
    => /\ ~last.ok <=> MatchesOf(last.pre, last.name, last.old) = {}
       /\ ~last.ok => editor = last.pre

C4_Witness ==
    /\ last.op = "set"
    /\ ~last.ok
    /\ StringsNamed(last.pre.ast, last.name) # {}
    /\ \E n \in AttrNames \ {last.name} : MatchesOf(last.pre, n, last.old) # {}
    /\ editor = last.pre

\* C5: in every state reached by calls of Ast::set, Ast::update_git and
\* Ast::update_vendor, whether they succeed, change nothing or fail, the tree
\* of the Ast is the parse of its buffer
C5_TreeIsParseOfBuffer == editor.ast = Parse(editor.content)

C5_Witness ==
    /\ steps = MaxOps
    /\ last.op \in {"update_git", "update_vendor"}
    /\ last.ok
    /\ editor.content # last.pre.content
    /\ last.pre.content # file
    /\ editor.ast = Parse(editor.content)

\* the entries directly inside the attribute set that is the value of entry e
InnerEntries(e) ==
    UNION {{x \in Range(v.children) : x.kind = "NODE_ATTRPATH_VALUE"} :
             v \in {y \in Range(e.children) : y.kind = "NODE_ATTR_SET"}}

\* the containers of a tree: the entries whose path reads platformData or dists
Containers(ast) ==
    {e \in AttrEntries(ast) : Text(ast, e.children[1]) \in {kPlatformData, kDists}}

\* the string-valued attributes of platform entry e
StringAttrs(e) == {x \in InnerEntries(e) : \E s \in Range(x.children) : s.kind = "NODE_STRING"}

\* the attribute map the claim gives platform entry e
AttrMapOf(ast, e) ==
    [n \in {Text(ast, x.children[1]) : x \in StringAttrs(e)} |->
       LET x == CHOOSE y \in StringAttrs(e) : Text(ast, y.children[1]) = n
       IN  extract_string_value(ast, CHOOSE s \in Range(x.children) : s.kind = "NODE_STRING")]

\* the platform entries that have at least one string-valued attribute
PopulatedEntries(ast) ==
    {e \in UNION {InnerEntries(c) : c \in Containers(ast)} : StringAttrs(e) # {}}

\* C6: Ast::platforms() returns exactly one block per immediate entry of a
\* platformData or dists container that has a string-valued attribute, the
\* block's map being exactly that entry's string attributes, and never a block
\* with an empty map
C6_PlatformsExact ==
    /\ Len(platforms(editor)) = Cardinality(PopulatedEntries(editor.ast))
    /\ Range(platforms(editor)) =
         {[platform_name |-> TrimMatchesQuote(Text(editor.ast, e.children[1])),
           attributes |-> AttrMapOf(editor.ast, e)] : e \in PopulatedEntries(editor.ast)}
    /\ \A b \in Range(platforms(editor)) : DOMAIN b.attributes # {}

C6_Witness ==
    /\ Len(platforms(editor)) = 2
    /\ Cardinality(UNION {InnerEntries(c) : c \in Containers(editor.ast)}) = 3
    /\ \A b \in Range(platforms(editor)) : DOMAIN b.attributes = {<<"f", "i", "l", "e", "n", "a", "m", "e">>, kHash}
    /\ last.op = "set"
    /\ editor.content # last.pre.content
    /\ platforms(editor) # platforms(last.pre)

(***************************************************************************)
(* GitHubClient::latest_commit.  A reference answers with a commit, with   *)
(* an object that is not a commit, with 404 or with another API error.     *)
(***************************************************************************)

kHEAD == <<"H", "E", "A", "D">>
kMain == <<"m", "a", "i", "n">>
kMaster == <<"m", "a", "s", "t", "e", "r">>

\* the three references in the order of the code
Branches == <<kHEAD, kMain, kMaster>>

\* the number of references latest_commit knows
MaxRefs == 3

Shas == {<<"a", "b", "c">>, <<"d", "e", "f">>}

\* what get_ref can answer for one reference
RefOutcomes ==
    {[t |-> "commit", sha |-> s] : s \in Shas}
        \cup {[t |-> "other_object"], [t |-> "not_found"], [t |-> "error"]}

\* the match on git_ref.object: Commit { sha } => Some(sha), _ => None
ObjectSha(o) == IF o.t = "commit" THEN Some(o.sha) ELSE None

\* get_ref returned Ok(git_ref)
RefOk(o) == o.t \in {"commit", "other_object"}

\* the innermost match: master
TryMaster(refs) ==
    [attempts |-> SubSeq(Branches, 1, 3), ok |-> TRUE,
     v |-> IF RefOk(refs[3]) THEN ObjectSha(refs[3]) ELSE None]

\* the match on main: any Err falls through to master
TryMain(refs) ==
    IF RefOk(refs[2])
    THEN [attempts |-> SubSeq(Branches, 1, 2), ok |-> TRUE, v |-> ObjectSha(refs[2])]
    ELSE TryMaster(refs)

\* GitHubClient::latest_commit: the references attempted, and the
\* Result<Option<String>> (ok = FALSE is Err)
latest_commit(refs) ==
    IF RefOk(refs[1])
    THEN [attempts |-> SubSeq(Branches, 1, 1), ok |-> TRUE, v |-> ObjectSha(refs[1])]
    ELSE IF refs[1].t = "not_found" THEN TryMain(refs)
    ELSE [attempts |-> SubSeq(Branches, 1, 1), ok |-> FALSE, v |-> None]

InitCommit ==
    /\ upstream \in [refs : [1..MaxRefs -> RefOutcomes]]
    /\ editor = None
    /\ file = <<>>
    /\ last = [op |-> "init"]
    /\ steps = 0
    /\ config = [force |-> FALSE]
    /\ package = None

\* a call of GitHubClient::latest_commit
LatestCommit ==
    /\ steps = 0
    /\ last' = [op |-> "latest_commit"] @@ latest_commit(upstream.refs)
    /\ steps' = 1
    /\ UNCHANGED <<editor, file, config, upstream, package>>

NextCommit == LatestCommit

SpecCommit == InitCommit /\ [][NextCommit]_vars

\* the references that resolve to a commit, by position
Resolving(refs) == {i \in 1..MaxRefs : refs[i].t = "commit"}

\* the first of them
FirstResolving(refs) == CHOOSE i \in Resolving(refs) : \A j \in Resolving(refs) : i <= j

\* C9: latest_commit attempts HEAD, then main, then master, stops at the
\* first reference that resolves to a commit and returns its sha, and returns
\* not-found only if all three attempts fail, whether by 404, by another API
\* error or by resolving to an object that is not a commit
C9_FallbackOrder ==
    last.op = "latest_commit"
    => IF Resolving(upstream.refs) = {}
       THEN /\ last.ok
            /\ last.v = None
            /\ last.attempts = Branches
       ELSE /\ last.ok
            /\ last.v = Some(upstream.refs[FirstResolving(upstream.refs)].sha)
            /\ last.attempts = SubSeq(Branches, 1, FirstResolving(upstream.refs))

(***************************************************************************)
(* The hash oracle: the diagnostics of a failed build, read by             *)
(* extract_hash_from_error and by the line scan of Ast::update_vendor.     *)
(***************************************************************************)

\* the pieces a diagnostic text is made of
Segments == {kGot, <<" ">>, <<"\n">>, <<"\t">>, <<"A">>, <<"B">>}

\* the number of pieces in one diagnostic text
MaxSegments == 3

\* the diagnostic texts
Diagnostics ==
    {Flatten(q) : q \in UNION {[1..n -> Segments] : n \in 0..MaxSegments}}

InitOracle ==
    /\ editor = from_ast(Parse(RecipeGit))
    /\ file = RecipeGit
    /\ upstream \in [build : [success : {FALSE}, stderr : Diagnostics]]
    /\ last = [op |-> "init"]
    /\ steps = 0
    /\ config = [force |-> FALSE]
    /\ package = None

\* a call of extract_hash_from_error on the diagnostics
ExtractHash ==
    /\ steps < MaxOps
    /\ last' = [op |-> "extract_hash_from_error",
                hash |-> extract_hash_from_error(upstream.build.stderr)]
    /\ steps' = steps + 1
    /\ UNCHANGED <<editor, file, config, upstream, package>>

NextOracle ==
    \/ ExtractHash
    \/ UpdateVendor(kVendor, TRUE, upstream.build)

SpecOracle == InitOracle /\ [][NextOracle]_vars

\* the text behind the first marker, leading whitespace skipped
AfterMarker(stderr) ==
    TrimStart(Slice(stderr, Find(stderr, kGot) + Len(kGot), Len(stderr)))

\* the longest prefix of t that holds no whitespace
UpToWhitespace(t) ==
    SubSeq(t, 1, CHOOSE n \in 0..Len(t) :
                   /\ \A j \in 1..n : ~IsWhitespace(t[j])
                   /\ n = Len(t) \/ IsWhitespace(t[n + 1]))

\* C10: for every diagnostic text that holds the marker got:, the extracted
\* hash is the text after the first marker, leading whitespace skipped, up to
\* the first following whitespace, both for extract_hash_from_error and for
\* the line scan of Ast::update_vendor (which writes it to the hash attribute)
C10_OracleExtraction ==
    Contains(upstream.build.stderr, kGot)
    => /\ last.op = "extract_hash_from_error"
          => last.hash = Some(UpToWhitespace(AfterMarker(upstream.build.stderr)))
       /\ (last.op = "update_vendor" /\ last.ok)
          => get(editor, kVendorHash)
               = Some(UpToWhitespace(AfterMarker(upstream.build.stderr)))

\* C10, the standalone function alone
C10_StandaloneOnly ==
    (Contains(upstream.build.stderr, kGot) /\ last.op = "extract_hash_from_error")
    => last.hash = Some(UpToWhitespace(AfterMarker(upstream.build.stderr)))

(***************************************************************************)
(* Packages and their results, src/package.rs.                             *)
(***************************************************************************)

\* UpdateResult::default()
DefaultResult ==
    [status |-> {}, message |-> None, old_version |-> None, new_version |-> None,
     old_git_commit |-> None, new_git_commit |-> None]

\* UpdateResult::failed
failed(result, msg) == [result EXCEPT !.status = {"Failed"}, !.message = Some(msg)]

\* UpdateResult::message
message(result, msg) == [result EXCEPT !.message = Some(msg)]

\* UpdateResult::success
success(result) == [result EXCEPT !.status = @ \cup {"Updated"}]

\* UpdateResult::up_to_date
up_to_date(result) ==
    [result EXCEPT !.status = @ \cup {"UpToDate"}, !.message = Some("Up to date")]

\* UpdateResult::version
version(result, old, new) ==
    IF ~Contains(old, kInterpolOpen) /\ ~Contains(old, kInterpolClose)
    THEN [result EXCEPT !.old_version = Some(old), !.new_version = Some(new)]
    ELSE result

\* UpdateResult::git_commit; the strategies pass options (a recipe without a
\* revision passes None for the old one)
git_commit(result, old, new) ==
    [result EXCEPT !.old_git_commit = old, !.new_git_commit = new]

kPname == <<"p", "n", "a", "m", "e">>
kHomepage == <<"h", "o", "m", "e", "p", "a", "g", "e">>
kFetchPypi == <<"f", "e", "t", "c", "h", "P", "y", "p", "i">>
kBuildRustPackage == <<"r", "u", "s", "t", "P", "l", "a", "t", "f", "o", "r", "m", ".", "b", "u", "i", "l", "d", "R", "u", "s", "t", "P", "a", "c", "k", "a", "g", "e">>
kFetchCrate == <<"f", "e", "t", "c", "h", "C", "r", "a", "t", "e">>
kGithubCom == <<"g", "i", "t", "h", "u", "b", ".", "c", "o", "m">>
kReleases == <<"r", "e", "l", "e", "a", "s", "e", "s">>
kDownload == <<"d", "o", "w", "n", "l", "o", "a", "d">>
kBuildGoModule == <<"b", "u", "i", "l", "d", "G", "o", "M", "o", "d", "u", "l", "e">>
kBuildNpmPackage == <<"b", "u", "i", "l", "d", "N", "p", "m", "P", "a", "c", "k", "a", "g", "e">>

\* Ast::contains_function_call
contains_function_call(ast, function_name) ==
    \E n \in {x \in {Descendants(ast.root)[i] : i \in 1..Len(Descendants(ast.root))} :
                x.kind = "NODE_APPLY"} :
       /\ Len(n.children) > 0
       /\ Contains(Text(ast, n.children[1]), function_name)

\* the kinds the dispatch of main knows and the classifier of package.rs does
\* not assign: a Go module and an npm package are told by their builder
EcosystemKind(ast) ==
    IF contains_function_call(ast, kBuildGoModule) THEN "Go"
    ELSE IF contains_function_call(ast, kBuildNpmPackage) THEN "Npm"
    ELSE "Git"

\* the package_type of Package::discover
PackageKindOf(content, ast) ==
    IF contains_function_call(ast, kFetchPypi) THEN "PyPi"
    ELSE IF contains_function_call(ast, kBuildRustPackage) THEN "Cargo"
    ELSE IF Contains(content, kGithubCom) /\ Contains(content, kReleases)
            /\ Contains(content, kDownload)
    THEN "GitHub"
    ELSE EcosystemKind(ast)

\* the fields Package::discover needs are there (it panics otherwise, and
\* passes over a file without pname)
Discoverable(a) ==
    /\ get(a, kPname).some
    /\ get(a, kHomepage).some
    /\ get(a, kHash).some
    /\ get(a, kVersion).some

\* the Package pushed by Package::discover for a recipe file
PackageOf(content, a) ==
    [name |-> get(a, kPname).v,
     kind |-> PackageKindOf(content, a.ast),
     homepage |-> get(a, kHomepage).v,
     nix_hash |-> get(a, kHash).v,
     version |-> get(a, kVersion).v,
     ast |-> a.ast,
     result |-> DefaultResult]

discover(content) == PackageOf(content, from_ast(Parse(content)))

\* { pname = "p"; version = "1.0"; homepage = "u";   src = fetchPypi { hash = "h1"; };   dists = { lin = { platform = "lin"; hash = "h2"; }; }; }
PkgPyPi ==
    <<"{", " ", "p", "n", "a", "m", "e", " ", "=", " ", "\"", "p", "\"", ";", " ", "v", "e", "r", "s", "i", "o", "n", " ", "=", " ", "\"", "1", ".", "0", "\"", ";", " ", "h", "o", "m", "e", "p", "a", "g", "e", " ", "=", " ", "\"", "u", "\"", ";", "\n", " ", " ", "s", "r", "c", " ", "=", " ", "f", "e", "t", "c", "h", "P", "y", "p", "i", " ", "{", " ", "h", "a", "s", "h", " ", "=", " ", "\"", "h", "1", "\"", ";", " ", "}", ";", "\n", " ", " ", "d", "i", "s", "t", "s", " ", "=", " ", "{", " ", "l", "i", "n", " ", "=", " ", "{", " ", "p", "l", "a", "t", "f", "o", "r", "m", " ", "=", " ", "\"", "l", "i", "n", "\"", ";", " ", "h", "a", "s", "h", " ", "=", " ", "\"", "h", "2", "\"", ";", " ", "}", ";", " ", "}", ";", "\n", "}">>

\* rustPlatform.buildRustPackage { pname = "p"; version = "1.0"; homepage = "u";   src = fetchCrate { hash = "h1"; };   cargoHash = "h2"; }
PkgCrate ==
    <<"r", "u", "s", "t", "P", "l", "a", "t", "f", "o", "r", "m", ".", "b", "u", "i", "l", "d", "R", "u", "s", "t", "P", "a", "c", "k", "a", "g", "e", " ", "{", " ", "p", "n", "a", "m", "e", " ", "=", " ", "\"", "p", "\"", ";", " ", "v", "e", "r", "s", "i", "o", "n", " ", "=", " ", "\"", "1", ".", "0", "\"", ";", " ", "h", "o", "m", "e", "p", "a", "g", "e", " ", "=", " ", "\"", "u", "\"", ";", "\n", " ", " ", "s", "r", "c", " ", "=", " ", "f", "e", "t", "c", "h", "C", "r", "a", "t", "e", " ", "{", " ", "h", "a", "s", "h", " ", "=", " ", "\"", "h", "1", "\"", ";", " ", "}", ";", "\n", " ", " ", "c", "a", "r", "g", "o", "H", "a", "s", "h", " ", "=", " ", "\"", "h", "2", "\"", ";", "\n", "}">>

\* rustPlatform.buildRustPackage { pname = "p"; version = "aaaaaaaa"; homepage = "u";   src = fetchFromGitHub { rev = "aaaaaaaa1"; hash = "h1"; };   cargoHash = "h2"; }
PkgCargoGit ==
    <<"r", "u", "s", "t", "P", "l", "a", "t", "f", "o", "r", "m", ".", "b", "u", "i", "l", "d", "R", "u", "s", "t", "P", "a", "c", "k", "a", "g", "e", " ", "{", " ", "p", "n", "a", "m", "e", " ", "=", " ", "\"", "p", "\"", ";", " ", "v", "e", "r", "s", "i", "o", "n", " ", "=", " ", "\"", "a", "a", "a", "a", "a", "a", "a", "a", "\"", ";", " ", "h", "o", "m", "e", "p", "a", "g", "e", " ", "=", " ", "\"", "u", "\"", ";", "\n", " ", " ", "s", "r", "c", " ", "=", " ", "f", "e", "t", "c", "h", "F", "r", "o", "m", "G", "i", "t", "H", "u", "b", " ", "{", " ", "r", "e", "v", " ", "=", " ", "\"", "a", "a", "a", "a", "a", "a", "a", "a", "1", "\"", ";", " ", "h", "a", "s", "h", " ", "=", " ", "\"", "h", "1", "\"", ";", " ", "}", ";", "\n", " ", " ", "c", "a", "r", "g", "o", "H", "a", "s", "h", " ", "=", " ", "\"", "h", "2", "\"", ";", "\n", "}">>

\* { pname = "p"; version = "1.0"; homepage = "u";   src = fetchurl { url = "github.com/releases/download"; hash = "h1"; };   platformData = { lin = { filename = "f"; hash = "h2"; }; }; }
PkgRelease ==
    <<"{", " ", "p", "n", "a", "m", "e", " ", "=", " ", "\"", "p", "\"", ";", " ", "v", "e", "r", "s", "i", "o", "n", " ", "=", " ", "\"", "1", ".", "0", "\"", ";", " ", "h", "o", "m", "e", "p", "a", "g", "e", " ", "=", " ", "\"", "u", "\"", ";", "\n", " ", " ", "s", "r", "c", " ", "=", " ", "f", "e", "t", "c", "h", "u", "r", "l", " ", "{", " ", "u", "r", "l", " ", "=", " ", "\"", "g", "i", "t", "h", "u", "b", ".", "c", "o", "m", "/", "r", "e", "l", "e", "a", "s", "e", "s", "/", "d", "o", "w", "n", "l", "o", "a", "d", "\"", ";", " ", "h", "a", "s", "h", " ", "=", " ", "\"", "h", "1", "\"", ";", " ", "}", ";", "\n", " ", " ", "p", "l", "a", "t", "f", "o", "r", "m", "D", "a", "t", "a", " ", "=", " ", "{", " ", "l", "i", "n", " ", "=", " ", "{", " ", "f", "i", "l", "e", "n", "a", "m", "e", " ", "=", " ", "\"", "f", "\"", ";", " ", "h", "a", "s", "h", " ", "=", " ", "\"", "h", "2", "\"", ";", " ", "}", ";", " ", "}", ";", "\n", "}">>

\* buildGoModule { pname = "p"; version = "1.0"; homepage = "u";   src = fetchFromGitHub { rev = "aaaaaaaa1"; hash = "h1"; };   vendorHash = "h2"; }
PkgGo ==
    <<"b", "u", "i", "l", "d", "G", "o", "M", "o", "d", "u", "l", "e", " ", "{", " ", "p", "n", "a", "m", "e", " ", "=", " ", "\"", "p", "\"", ";", " ", "v", "e", "r", "s", "i", "o", "n", " ", "=", " ", "\"", "1", ".", "0", "\"", ";", " ", "h", "o", "m", "e", "p", "a", "g", "e", " ", "=", " ", "\"", "u", "\"", ";", "\n", " ", " ", "s", "r", "c", " ", "=", " ", "f", "e", "t", "c", "h", "F", "r", "o", "m", "G", "i", "t", "H", "u", "b", " ", "{", " ", "r", "e", "v", " ", "=", " ", "\"", "a", "a", "a", "a", "a", "a", "a", "a", "1", "\"", ";", " ", "h", "a", "s", "h", " ", "=", " ", "\"", "h", "1", "\"", ";", " ", "}", ";", "\n", " ", " ", "v", "e", "n", "d", "o", "r", "H", "a", "s", "h", " ", "=", " ", "\"", "h", "2", "\"", ";", "\n", "}">>

\* buildNpmPackage { pname = "p"; version = "1.0-aaaaaaaa"; homepage = "u";   src = fetchFromGitHub { rev = "aaaaaaaa1"; hash = "h1"; };   npmDepsHash = "h2"; }
PkgNpm ==
    <<"b", "u", "i", "l", "d", "N", "p", "m", "P", "a", "c", "k", "a", "g", "e", " ", "{", " ", "p", "n", "a", "m", "e", " ", "=", " ", "\"", "p", "\"", ";", " ", "v", "e", "r", "s", "i", "o", "n", " ", "=", " ", "\"", "1", ".", "0", "-", "a", "a", "a", "a", "a", "a", "a", "a", "\"", ";", " ", "h", "o", "m", "e", "p", "a", "g", "e", " ", "=", " ", "\"", "u", "\"", ";", "\n", " ", " ", "s", "r", "c", " ", "=", " ", "f", "e", "t", "c", "h", "F", "r", "o", "m", "G", "i", "t", "H", "u", "b", " ", "{", " ", "r", "e", "v", " ", "=", " ", "\"", "a", "a", "a", "a", "a", "a", "a", "a", "1", "\"", ";", " ", "h", "a", "s", "h", " ", "=", " ", "\"", "h", "1", "\"", ";", " ", "}", ";", "\n", " ", " ", "n", "p", "m", "D", "e", "p", "s", "H", "a", "s", "h", " ", "=", " ", "\"", "h", "2", "\"", ";", "\n", "}">>

\* { pname = "p"; version = "1.0"; homepage = "u";   src = fetchgit { rev = "aaaaaaaa1"; hash = "h1"; }; }
PkgGit ==
    <<"{", " ", "p", "n", "a", "m", "e", " ", "=", " ", "\"", "p", "\"", ";", " ", "v", "e", "r", "s", "i", "o", "n", " ", "=", " ", "\"", "1", ".", "0", "\"", ";", " ", "h", "o", "m", "e", "p", "a", "g", "e", " ", "=", " ", "\"", "u", "\"", ";", "\n", " ", " ", "s", "r", "c", " ", "=", " ", "f", "e", "t", "c", "h", "g", "i", "t", " ", "{", " ", "r", "e", "v", " ", "=", " ", "\"", "a", "a", "a", "a", "a", "a", "a", "a", "1", "\"", ";", " ", "h", "a", "s", "h", " ", "=", " ", "\"", "h", "1", "\"", ";", " ", "}", ";", "\n", "}">>

\* { pname = "p"; version = "1.0"; homepage = "u";   src = fetchgit { rev = "aaaaaaaa1"; hash = "h1"; };   vendorHash = "h3"; cargoHash = "h2"; }
PkgGitCargo ==
    <<"{", " ", "p", "n", "a", "m", "e", " ", "=", " ", "\"", "p", "\"", ";", " ", "v", "e", "r", "s", "i", "o", "n", " ", "=", " ", "\"", "1", ".", "0", "\"", ";", " ", "h", "o", "m", "e", "p", "a", "g", "e", " ", "=", " ", "\"", "u", "\"", ";", "\n", " ", " ", "s", "r", "c", " ", "=", " ", "f", "e", "t", "c", "h", "g", "i", "t", " ", "{", " ", "r", "e", "v", " ", "=", " ", "\"", "a", "a", "a", "a", "a", "a", "a", "a", "1", "\"", ";", " ", "h", "a", "s", "h", " ", "=", " ", "\"", "h", "1", "\"", ";", " ", "}", ";", "\n", " ", " ", "v", "e", "n", "d", "o", "r", "H", "a", "s", "h", " ", "=", " ", "\"", "h", "3", "\"", ";", " ", "c", "a", "r", "g", "o", "H", "a", "s", "h", " ", "=", " ", "\"", "h", "2", "\"", ";", " ", "}">>

\* a git-based Cargo recipe whose version is its revision
PkgCargoRev ==
    <<"r", "u", "s", "t", "P", "l", "a", "t", "f", "o", "r", "m", ".", "b", "u", "i", "l", "d", "R", "u", "s", "t", "P", "a", "c", "k", "a", "g", "e", " ", "{", " ", "p", "n", "a", "m", "e", " ", "=", " ", "\"", "p", "\"", ";", " ", "v", "e", "r", "s", "i", "o", "n", " ", "=", " ", "\"", "a", "a", "a", "a", "a", "a", "a", "a", "1", "\"", ";", " ", "h", "o", "m", "e", "p", "a", "g", "e", " ", "=", " ", "\"", "u", "\"", ";", "\n", " ", " ", "s", "r", "c", " ", "=", " ", "f", "e", "t", "c", "h", "F", "r", "o", "m", "G", "i", "t", "H", "u", "b", " ", "{", " ", "r", "e", "v", " ", "=", " ", "\"", "a", "a", "a", "a", "a", "a", "a", "a", "1", "\"", ";", " ", "h", "a", "s", "h", " ", "=", " ", "\"", "h", "1", "\"", ";", " ", "}", ";", "\n", " ", " ", "c", "a", "r", "g", "o", "H", "a", "s", "h", " ", "=", " ", "\"", "h", "2", "\"", ";", "\n", "}">>

\* buildNpmPackage { pname = "p"; version = "1.0-aaaaaaaa1"; homepage = "u";   src = fetchFromGitHub { rev = "aaaaaaaa1"; hash = "h1"; };   npmDepsHash = "h2"; }
PkgNpmRev ==
    <<"b", "u", "i", "l", "d", "N", "p", "m", "P", "a", "c", "k", "a", "g", "e", " ", "{", " ", "p", "n", "a", "m", "e", " ", "=", " ", "\"", "p", "\"", ";", " ", "v", "e", "r", "s", "i", "o", "n", " ", "=", " ", "\"", "1", ".", "0", "-", "a", "a", "a", "a", "a", "a", "a", "a", "1", "\"", ";", " ", "h", "o", "m", "e", "p", "a", "g", "e", " ", "=", " ", "\"", "u", "\"", ";", "\n", " ", " ", "s", "r", "c", " ", "=", " ", "f", "e", "t", "c", "h", "F", "r", "o", "m", "G", "i", "t", "H", "u", "b", " ", "{", " ", "r", "e", "v", " ", "=", " ", "\"", "a", "a", "a", "a", "a", "a", "a", "a", "1", "\"", ";", " ", "h", "a", "s", "h", " ", "=", " ", "\"", "h", "1", "\"", ";", " ", "}", ";", "\n", " ", " ", "n", "p", "m", "D", "e", "p", "s", "H", "a", "s", "h", " ", "=", " ", "\"", "h", "2", "\"", ";", " ", "}">>

(***************************************************************************)
(* The update strategies, src/updater/*.rs.  A strategy threads a run      *)
(* state rs through its steps:                                             *)
(*   ok      FALSE once a step returned Err (the ? operator)               *)
(*   done    TRUE once the strategy returned Ok early                      *)
(*   a       the Ast it edits                                              *)
(*   file    the recipe file                                               *)
(*   lock    the package-lock.json next to it                              *)
(*   writes  the number of writes of the recipe file                       *)
(*   cleared the attributes set to the empty string so far                 *)
(*   oracle  the update_vendor calls made so far                           *)
(*   result  package.result                                                *)
(***************************************************************************)

\* Updater::should_skip_update
should_skip_update(force, current, latest) == current = latest /\ ~force

kSha256 == <<"s", "h", "a", "2", "5", "6", "-">>

\* the length of a short hash
ShortHashLen == 8

\* short_hash: strip_prefix("sha256-"), then the first 8 characters
ShortOf(h) == SubSeq(h, 1, IF Len(h) < ShortHashLen THEN Len(h) ELSE ShortHashLen)

short_hash(hash) ==
    ShortOf(IF MatchAt(hash, kSha256, 0) THEN Slice(hash, Len(kSha256), Len(hash))
            ELSE hash)

RECURSIVE TrimStartMatches(_, _)
\* str::trim_start_matches(c)
TrimStartMatches(s, c) ==
    IF Len(s) > 0 /\ s[1] = c THEN TrimStartMatches(Tail(s), c) ELSE s

\* str::split('-').next(): the text before the first dash
BeforeDash(s) == IF Find(s, <<"-">>) < 0 THEN s ELSE Slice(s, 0, Find(s, <<"-">>))

\* package.ast(): a fresh Ast over the tree the package was discovered with
Start(pkg, content) ==
    [ok |-> TRUE, done |-> FALSE, a |-> from_ast(pkg.ast), file |-> content,
     lock |-> None, writes |-> 0, cleared |-> {}, oracle |-> <<>>,
     result |-> pkg.result]

Active(rs) == rs.ok /\ ~rs.done

\* package.result.failed(msg); return Ok(())
Fail(rs, msg) == [rs EXCEPT !.result = failed(@, msg), !.done = TRUE]

\* package.result.failed(msg); break
FailAndBreak(rs, msg) == [rs EXCEPT !.result = failed(@, msg)]

\* package.result.up_to_date(); return Ok(())
UpToDate(rs) == [rs EXCEPT !.result = up_to_date(@), !.done = TRUE]

\* a step that returned Err
Errored(rs) == [rs EXCEPT !.ok = FALSE]

\* the outcome r of an editor call, taken over with the ? operator
Edited(rs, r) == [rs EXCEPT !.ok = r.ok, !.a = r.a]

\* a set that returned Ok with the empty string as its new value cleared name
Noted(rs, name, new) ==
    IF rs.ok /\ new = <<>> THEN [rs EXCEPT !.cleared = @ \cup {name}] ELSE rs

\* ast.set(name, old, new)?
SetStep(rs, name, old, new) ==
    IF Active(rs) THEN Noted(Edited(rs, set(rs.a, name, old, new)), name, new) ELSE rs

\* if let Some(old) = current { ast.set(name, &old, new)?; }
SetFrom(rs, name, current, new) ==
    IF current.some THEN SetStep(rs, name, current.v, new) ELSE rs

\* if let Some(old) = ast.get(name) { ast.set(name, &old, new)?; }
SetCurrent(rs, name, new) ==
    IF Active(rs) THEN SetFrom(rs, name, get(rs.a, name), new) ELSE rs

\* ast.update_git(old_rev, new_rev, new_hash, old_hash)?
GitStep(rs, old_rev, new_rev, new_hash, old_hash) ==
    IF Active(rs) THEN Edited(rs, update_git(rs.a, old_rev, new_rev, new_hash, old_hash))
    ELSE rs

\* the outcome r of update_vendor: its write put the buffer it was called
\* with into the recipe file
VendorDone(rs, r) ==
    [rs EXCEPT !.ok = r.ok, !.a = r.a,
               !.file = IF r.wrote THEN rs.a.content ELSE @,
               !.writes = IF r.wrote THEN @ + 1 ELSE @]

\* the update_vendor call as the strategy makes it: its label, the value of
\* <label>Hash in the buffer and the attributes cleared before
Invoked(rs, hash_type) ==
    [rs EXCEPT !.oracle = Append(@, [label |-> hash_type,
                                     value |-> get(rs.a, hash_type \o kHashSuffix),
                                     cleared |-> rs.cleared])]

\* ast.update_vendor(package, hash_type, pb)?
VendorStep(rs, hash_type, up) ==
    IF Active(rs)
    THEN VendorDone(Invoked(rs, hash_type),
                    update_vendor(rs.a, hash_type, up.write_ok, up.build))
    ELSE rs

WriteStepAgain(rs, up) ==
    IF ~Active(rs) THEN rs
    ELSE IF up.write_ok
    THEN [rs EXCEPT !.file = rs.a.content, !.writes = @ + 2]
    ELSE Errored(rs)

\* package.write(&ast)?
WriteStep(rs, up) ==
    IF ~Active(rs) THEN rs
    ELSE IF up.write_ok
    THEN [rs EXCEPT !.file = rs.a.content, !.writes = @ + 1]
    ELSE Errored(rs)

\* package.result.version(old, new)
VersionStep(rs, old, new) ==
    IF Active(rs) THEN [rs EXCEPT !.result = version(@, old, new)] ELSE rs

\* package.result.git_commit(old, new)
CommitStep(rs, old, new) ==
    IF Active(rs) THEN [rs EXCEPT !.result = git_commit(@, old, new)] ELSE rs

\* package.result.success()
SuccessStep(rs) == IF Active(rs) THEN [rs EXCEPT !.result = success(@)] ELSE rs

kPlatform == <<"p", "l", "a", "t", "f", "o", "r", "m">>
kFilename == <<"f", "i", "l", "e", "n", "a", "m", "e">>
kCargoHash == <<"c", "a", "r", "g", "o", "H", "a", "s", "h">>
kNpmDepsHash == <<"n", "p", "m", "D", "e", "p", "s", "H", "a", "s", "h">>
kNpmDeps == <<"n", "p", "m", "D", "e", "p", "s">>

\* releases.iter().find(|w| w.filename.contains(platform_value)).map(|w| &w.url)
\* Nix::prefetch_hash(url): what the outside world answers for this artifact;
\* a world that tells its artifacts apart has one answer per artifact
prefetch_hash(up, url) ==
    IF "artifacts" \in DOMAIN up THEN up.artifacts[url] ELSE up.prefetch

WheelUrl(releases, platform_value) ==
    FirstSome([j \in 1..Len(releases) |->
                 IF Contains(releases[j].filename, platform_value)
                 THEN Some(releases[j].url) ELSE None])

RECURSIVE PyPiBlocks(_, _, _, _, _)

\* the loop body of PyPiUpdater::update once Nix::prefetch_hash answered
PyPiPrefetched(rs, blocks, i, releases, up, new_hash) ==
    IF new_hash.some
    THEN PyPiBlocks(SetStep(rs, kHash, blocks[i].attributes[kHash], new_hash.v),
                    blocks, i + 1, releases, up)
    ELSE FailAndBreak(rs, "Failed to get hash for platform")

\* the loop body once the wheel was looked up
PyPiBlock(rs, blocks, i, releases, up, url) ==
    IF ~url.some THEN Fail(rs, "No wheel found for platform")
    ELSE PyPiPrefetched(rs, blocks, i, releases, up, prefetch_hash(up, url.v))

\* the loop of PyPiUpdater::update over the platform blocks
PyPiBlocks(rs, blocks, i, releases, up) ==
    IF ~Active(rs) \/ i > Len(blocks) THEN rs
    ELSE IF ~({kPlatform, kHash} \subseteq DOMAIN blocks[i].attributes)
    THEN PyPiBlocks(rs, blocks, i + 1, releases, up)
    ELSE PyPiBlock(rs, blocks, i, releases, up,
                   WheelUrl(releases, blocks[i].attributes[kPlatform]))

\* if let Some(releases) = data.releases.get(&latest_version) { ... }
PyPiPlatforms(rs, releases, up) ==
    IF releases.some THEN PyPiBlocks(rs, platforms(rs.a), 1, releases.v, up) ELSE rs

\* PyPiUpdater::update behind the skip test
PyPiEdit(pkg, up, rs, data) ==
    VersionStep(
        WriteStep(
            SetStep(PyPiPlatforms(rs, data.releases, up), kVersion, pkg.version,
                    data.version),
            up),
        pkg.version, data.version)

\* PyPiUpdater::update
PyPiUpdater_update(pkg, force, up, content) ==
    IF ~up.pypi.some THEN Fail(Start(pkg, content), "Package not found on PyPI")
    ELSE IF should_skip_update(force, pkg.version, up.pypi.v.version)
    THEN UpToDate(Start(pkg, content))
    ELSE PyPiEdit(pkg, up, Start(pkg, content), up.pypi.v)

RECURSIVE ReleaseBlocks(_, _, _, _)

\* the loop body of GitHubRelease::update once Nix::prefetch_hash answered
ReleasePrefetched(rs, blocks, i, up, new_hash) ==
    IF new_hash.some
    THEN ReleaseBlocks(SetStep(rs, kHash, blocks[i].attributes[kHash], new_hash.v),
                       blocks, i + 1, up)
    ELSE FailAndBreak(rs, "Failed to get hash for file")

\* the loop of GitHubRelease::update over the platform blocks
ReleaseBlocks(rs, blocks, i, up) ==
    IF ~Active(rs) \/ i > Len(blocks) THEN rs
    ELSE IF {kFilename, kHash} \subseteq DOMAIN blocks[i].attributes
    THEN ReleasePrefetched(rs, blocks, i, up,
                           prefetch_hash(up, blocks[i].attributes[kFilename]))
    ELSE ReleaseBlocks(rs, blocks, i + 1, up)

\* if let Some(new_h) = &new_hash { ast.set("hash", &package.nix_hash, new_h)?; }
ReleaseHash(rs, pkg, nurl) ==
    IF nurl.some THEN SetStep(rs, kHash, pkg.nix_hash, nurl.v.hash) ELSE rs

ReleasePlatforms(rs, up) ==
    IF Active(rs) THEN ReleaseBlocks(rs, platforms(rs.a), 1, up) ELSE rs

\* GitHubRelease::update behind the skip test
ReleaseEdit(pkg, up, rs, latest_version) ==
    VersionStep(
        WriteStep(
            ReleasePlatforms(
                ReleaseHash(SetStep(rs, kVersion, pkg.version, latest_version), pkg,
                            up.nurl),
                up),
            up),
        pkg.version, latest_version)

\* GitHubRelease::update once the tag is known
ReleaseTagged(pkg, force, up, rs, latest_version) ==
    IF should_skip_update(force, pkg.version, latest_version) THEN UpToDate(rs)
    ELSE ReleaseEdit(pkg, up, rs, latest_version)

\* package.result.message(msg); return Ok(())
NoRelease(rs) ==
    [rs EXCEPT !.result = message(@, "No releases found on GitHub - keeping current version"),
               !.done = TRUE]

\* GitHubRelease::update
GitHubRelease_update(pkg, force, up, content) ==
    IF ~up.release.ok THEN Errored(Start(pkg, content))
    ELSE IF ~up.release.v.some THEN NoRelease(Start(pkg, content))
    ELSE ReleaseTagged(pkg, force, up, Start(pkg, content),
                       TrimStartMatches(up.release.v.v, "v"))

\* if package.version != latest_version { ast.set("version", ...)?; }
CrateVersion(rs, pkg, latest_version) ==
    IF pkg.version # latest_version
    THEN SetStep(rs, kVersion, pkg.version, latest_version)
    ELSE rs

\* Cargo::update_fetch_crate behind the prefetch
CrateEdit(pkg, up, rs, latest_version, new_hash) ==
    VersionStep(
        WriteStep(
            VendorStep(
                SetCurrent(
                    SetCurrent(CrateVersion(rs, pkg, latest_version), kHash, new_hash),
                    kCargoHash, <<>>),
                kCargo, up),
            up),
        pkg.version, latest_version)

\* Cargo::update_fetch_crate
update_fetch_crate(pkg, force, up, content) ==
    IF ~up.crates.some THEN Fail(Start(pkg, content), "Crate not found on crates.io")
    ELSE IF should_skip_update(force, pkg.version, up.crates.v)
    THEN UpToDate(Start(pkg, content))
    ELSE IF ~up.fetchcrate.some
    THEN Fail(Start(pkg, content), "Failed to get hash for crate")
    ELSE CrateEdit(pkg, up, Start(pkg, content), up.crates.v, up.fetchcrate.v)

\* Cargo::update_git_based behind the prefetch
CargoGitEdit(pkg, up, rs, current, latest, new_hash) ==
    VersionStep(
        CommitStep(
            WriteStep(
                VendorStep(
                    SetCurrent(
                        CrateVersion(GitStep(rs, Some(current), latest, new_hash, None),
                                     pkg, short_hash(latest)),
                        kCargoHash, <<>>),
                    kCargo, up),
                up),
            Some(current), Some(latest)),
        pkg.version, short_hash(latest))

\* Cargo::update_git_based once latest_commit answered lc
CargoGitLatest(pkg, force, up, rs, current, lc) ==
    IF ~lc.ok THEN Errored(rs)
    ELSE IF ~lc.v.some THEN Fail(rs, "Failed to fetch latest commit")
    ELSE IF should_skip_update(force, current, lc.v.v) THEN UpToDate(rs)
    ELSE IF ~up.nurl.some THEN Fail(rs, "Failed to get new hash")
    ELSE CargoGitEdit(pkg, up, rs, current, lc.v.v, up.nurl.v.hash)

\* Cargo::update_git_based once the current revision was looked up
CargoGitRev(pkg, force, up, rs, current) ==
    IF ~current.some THEN Fail(rs, "Could not extract rev")
    ELSE CargoGitLatest(pkg, force, up, rs, current.v, latest_commit(up.refs))

\* Cargo::update_git_based
update_git_based(pkg, force, up, content) ==
    CargoGitRev(pkg, force, up, Start(pkg, content), get(from_ast(pkg.ast), kRev))

\* Cargo::update
Cargo_update(pkg, force, up, content) ==
    IF contains_function_call(pkg.ast, kFetchCrate)
    THEN update_fetch_crate(pkg, force, up, content)
    ELSE update_git_based(pkg, force, up, content)

\* GoUpdater::update behind the prefetch
GoEdit(up, rs, current, latest, new_hash) ==
    CommitStep(
        WriteStep(
            VendorStep(
                SetCurrent(GitStep(rs, current, latest, new_hash, None), kVendorHash,
                           <<>>),
                kVendor, up),
            up),
        current, Some(latest))

\* a Go strategy without the skip test
GoLatestNoSkip(force, up, rs, current, lc) ==
    IF ~lc.ok THEN Errored(rs)
    ELSE IF ~lc.v.some THEN Fail(rs, "Could not get latest commit from GitHub")
    ELSE IF ~up.nurl.some THEN Fail(rs, "Failed to get new hash")
    ELSE GoEdit(up, rs, current, lc.v.v, up.nurl.v.hash)

\* GoUpdater::update once the revisions are known
GoLatest(force, up, rs, current, lc) ==
    IF ~lc.ok THEN Errored(rs)
    ELSE IF current.some /\ lc.v.some /\ should_skip_update(force, current.v, lc.v.v)
    THEN UpToDate(rs)
    ELSE IF ~lc.v.some THEN Fail(rs, "Could not get latest commit from GitHub")
    ELSE IF ~up.nurl.some THEN Fail(rs, "Failed to get new hash")
    ELSE GoEdit(up, rs, current, lc.v.v, up.nurl.v.hash)

\* GoUpdater::update
GoUpdater_update(pkg, force, up, content) ==
    GoLatest(force, up, Start(pkg, content), get(from_ast(pkg.ast), kRev),
             latest_commit(up.refs))

\* format!("{base_version}-{latest_version}")
NpmVersion(pkg, latest) == BeforeDash(pkg.version) \o <<"-">> \o short_hash(latest)

\* save_package_lock
NpmLocked(rs, up) ==
    IF up.write_ok THEN [rs EXCEPT !.lock = up.package_lock] ELSE Errored(rs)

\* NpmUpdater::update behind the download of the lock file
NpmEdit(pkg, up, rs, current, latest, new_hash) ==
    VersionStep(
        CommitStep(
            WriteStep(
                VendorStep(
                    SetCurrent(
                        SetStep(GitStep(rs, current, latest, new_hash, None), kVersion,
                                pkg.version, NpmVersion(pkg, latest)),
                        kNpmDepsHash, <<>>),
                    kNpmDeps, up),
                up),
            current, Some(latest)),
        pkg.version, NpmVersion(pkg, latest))

\* NpmUpdater::update once the revisions are known
NpmLatest(pkg, force, up, rs, current, lc) ==
    IF ~lc.ok THEN Errored(rs)
    ELSE IF current.some /\ lc.v.some /\ should_skip_update(force, current.v, lc.v.v)
    THEN UpToDate(rs)
    ELSE IF ~lc.v.some THEN Fail(rs, "Could not get latest commit from GitHub")
    ELSE IF ~up.nurl.some THEN Fail(rs, "Failed to get new hash")
    ELSE IF ~up.package_lock.some
    THEN Fail(rs, "Could not download package-lock.json from repository")
    ELSE NpmEdit(pkg, up, NpmLocked(rs, up), current, lc.v.v, up.nurl.v.hash)

\* NpmUpdater::update
NpmUpdater_update(pkg, force, up, content) ==
    NpmLatest(pkg, force, up, Start(pkg, content), get(from_ast(pkg.ast), kRev),
              latest_commit(up.refs))

\* if ast.get("cargoHash").is_some() { ast.update_vendor(package, "cargo", pb)?; }
GitCargo(rs, up) ==
    IF Active(rs) /\ get(rs.a, kCargoHash).some THEN VendorStep(rs, kCargo, up) ELSE rs

\* if let (Some(old_rev), Some(new_rev)) = (current_rev, new_rev) { ... }
GitCommit(rs, current_rev, new_rev) ==
    IF current_rev.some /\ new_rev.some THEN CommitStep(rs, current_rev, new_rev)
    ELSE rs

\* a plain git strategy that marks the result Updated before it writes
GitEditSuccessFirst(pkg, up, rs, current_rev, new) ==
    GitCommit(
        WriteStep(
            SuccessStep(
                GitCargo(
                    SetCurrent(
                        GitStep(rs, current_rev, UnwrapOrDefault(new.rev), new.hash,
                                Some(pkg.nix_hash)),
                        kVendorHash, <<>>),
                    up)),
            up),
        current_rev, new.rev)

\* GitRepository::update behind the skip test
GitEdit(pkg, up, rs, current_rev, new) ==
    GitCommit(
        SuccessStep(
            WriteStep(
                GitCargo(
                    SetCurrent(
                        GitStep(rs, current_rev, UnwrapOrDefault(new.rev), new.hash,
                                Some(pkg.nix_hash)),
                        kVendorHash, <<>>),
                    up),
                up)),
        current_rev, new.rev)

\* a plain git strategy that compares the revisions only
GitNurlRevOnly(pkg, force, up, rs, current_rev, new) ==
    IF current_rev = new.rev /\ ~force THEN UpToDate(rs)
    ELSE GitEdit(pkg, up, rs, current_rev, new)

\* GitRepository::update once nurl answered new = (new_hash, new_rev)
GitNurl(pkg, force, up, rs, current_rev, new) ==
    IF pkg.nix_hash = new.hash /\ current_rev = new.rev /\ ~force THEN UpToDate(rs)
    ELSE GitEdit(pkg, up, rs, current_rev, new)

\* GitRepository::update
GitRepository_update(pkg, force, up, content) ==
    IF ~up.nurl.some THEN Fail(Start(pkg, content), "nurl failed")
    ELSE GitNurl(pkg, force, up, Start(pkg, content), get(from_ast(pkg.ast), kRev),
                 up.nurl.v)

(***************************************************************************)
(* The run of the program over one recipe file, src/main.rs: discovery,    *)
(* the strategy of the package's kind, the end of the run.  upstream holds *)
(* the answers of the outside world and does not change between runs;      *)
(* last.runs records, for each strategy call, the package it was given,    *)
(* the file before and after, and what the call did.                       *)
(***************************************************************************)

\* the number of runs of the program in one behaviour
MaxRuns == 2

V1 == <<"1", ".", "0">>
V2 == <<"2", ".", "0">>
Rev1 == <<"a", "a", "a", "a", "a", "a", "a", "a", "1">>
Rev2 == <<"b", "b", "b", "b", "b", "b", "b", "b", "2">>
H1 == <<"h", "1">>
H9 == <<"h", "9">>

PkgRecipes ==
    {PkgPyPi, PkgCrate, PkgCargoGit, PkgRelease, PkgGo, PkgNpm, PkgGit, PkgGitCargo,
     PkgNpmRev, PkgCargoRev}

\* an outside world in which nothing is found and nothing fails to be written
UpBase ==
    [pypi |-> None, crates |-> None, fetchcrate |-> None,
     release |-> [ok |-> TRUE, v |-> None],
     refs |-> [i \in 1..MaxRefs |-> [t |-> "not_found"]],
     nurl |-> None, prefetch |-> None, package_lock |-> None,
     build |-> [success |-> TRUE, stderr |-> <<>>], write_ok |-> TRUE]

Wheels == {None, Some(<<>>), Some(<<[filename |-> <<"p", "-", "l", "i", "n", ".", "w", "h", "l">>, url |-> <<"w">>]>>)}

PyPiAnswers == {None} \cup {Some([version |-> v, releases |-> w]) : v \in {V1, V2}, w \in Wheels}

ReleaseAnswers ==
    {[ok |-> FALSE, v |-> None], [ok |-> TRUE, v |-> None],
     [ok |-> TRUE, v |-> Some(<<"v", "1", ".", "0">>)], [ok |-> TRUE, v |-> Some(<<"v", "2", ".", "0">>)]}

\* the answers of the three references the strategies are run against
RefAnswers ==
    {[i \in 1..MaxRefs |-> IF i = 1 THEN [t |-> "commit", sha |-> Rev1] ELSE [t |-> "not_found"]],
     [i \in 1..MaxRefs |-> IF i = 1 THEN [t |-> "commit", sha |-> Rev2] ELSE [t |-> "not_found"]],
     [i \in 1..MaxRefs |-> IF i = 2 THEN [t |-> "commit", sha |-> Rev2] ELSE [t |-> "not_found"]],
     [i \in 1..MaxRefs |-> [t |-> "not_found"]],
     [i \in 1..MaxRefs |-> [t |-> "error"]]}

NurlAnswers ==
    {None} \cup {Some([hash |-> h, rev |-> r]) : h \in {H1, H9}, r \in {None, Some(Rev1), Some(Rev2)}}

\* the outside worlds a package of the given kind is run against
UpstreamsOf(content) ==
    IF content = PkgPyPi
    THEN {[UpBase EXCEPT !.pypi = p, !.prefetch = h, !.write_ok = w] :
            p \in PyPiAnswers, h \in {None, Some(H9)}, w \in BOOLEAN}
    ELSE IF content = PkgRelease
    THEN {[UpBase EXCEPT !.release = r, !.nurl = n, !.prefetch = h, !.write_ok = w] :
            r \in ReleaseAnswers, n \in {None, Some([hash |-> H9, rev |-> None])},
            h \in {None, Some(H9)}, w \in BOOLEAN}
    ELSE IF content = PkgCrate
    THEN {[UpBase EXCEPT !.crates = c, !.fetchcrate = h, !.build = b, !.write_ok = w] :
            c \in {None, Some(V1), Some(V2)}, h \in {None, Some(H9)},
            b \in BuildOutcomes, w \in BOOLEAN}
    ELSE IF content = PkgGit
    THEN {[UpBase EXCEPT !.nurl = n, !.write_ok = w] : n \in NurlAnswers, w \in BOOLEAN}
    ELSE IF content = PkgGitCargo
    THEN {[UpBase EXCEPT !.nurl = n, !.build = b, !.write_ok = w] :
            n \in {None, Some([hash |-> H9, rev |-> Some(Rev2)])},
            b \in BuildOutcomes, w \in BOOLEAN}
    ELSE {[UpBase EXCEPT !.refs = r, !.nurl = n, !.package_lock = l, !.build = b,
                         !.write_ok = w] :
            r \in RefAnswers, n \in {None, Some([hash |-> H9, rev |-> Some(Rev2)])},
            l \in IF content \in {PkgNpm, PkgNpmRev} THEN {None, Some(<<"{", "}">>)}
                  ELSE {None},
            b \in BuildOutcomes, w \in BOOLEAN}

Init ==
    /\ file \in PkgRecipes
    /\ editor = from_ast(Parse(file))
    /\ config \in [force : BOOLEAN]
    /\ upstream \in UpstreamsOf(file)
    /\ package = None
    /\ last = [op |-> "init", runs |-> <<>>]
    /\ steps = 0

\* Package::discover on the recipe file
Discover ==
    /\ steps < MaxRuns
    /\ package = None
    /\ Discoverable(from_ast(Parse(file)))
    /\ package' = discover(file)
    /\ last' = [last EXCEPT !.op = "discover"]
    /\ UNCHANGED <<editor, file, steps, config, upstream>>

\* what the strategy call that ended in rs is remembered by
RunOf(pkg, before, rs) ==
    [pkg |-> pkg, before |-> before, after |-> rs.file, ok |-> rs.ok,
     status |-> rs.result.status, writes |-> rs.writes, lock |-> rs.lock,
     content |-> rs.a.content, oracle |-> rs.oracle]

\* the strategy returned with rs
Updated(rs) ==
    /\ package' = [package EXCEPT !.result = rs.result]
    /\ file' = rs.file
    /\ editor' = rs.a
    /\ last' = [op |-> "update", runs |-> Append(last.runs, RunOf(package, file, rs))]
    /\ UNCHANGED <<steps, config, upstream>>

Discovered(kind) == last.op = "discover" /\ package.kind = kind

\* PackageKind::PyPi => PyPiUpdater::update
UpdatePyPi ==
    /\ Discovered("PyPi")
    /\ Updated(PyPiUpdater_update(package, config.force, upstream, file))

\* PackageKind::GitHub => GitHubRelease::update
UpdateGitHub ==
    /\ Discovered("GitHub")
    /\ Updated(GitHubRelease_update(package, config.force, upstream, file))

\* PackageKind::Cargo => Cargo::update
UpdateCargo ==
    /\ Discovered("Cargo")
    /\ Updated(Cargo_update(package, config.force, upstream, file))

\* PackageKind::Npm => NpmUpdater::update
UpdateNpm ==
    /\ Discovered("Npm")
    /\ Updated(NpmUpdater_update(package, config.force, upstream, file))

\* PackageKind::Go => GoUpdater::update
UpdateGo ==
    /\ Discovered("Go")
    /\ Updated(GoUpdater_update(package, config.force, upstream, file))

\* PackageKind::Git => GitRepository::update
UpdateGitRepository ==
    /\ Discovered("Git")
    /\ Updated(GitRepository_update(package, config.force, upstream, file))

\* main returns: the Package values are dropped with the process
Finish ==
    /\ last.op = "update"
    /\ package' = None
    /\ steps' = steps + 1
    /\ last' = [last EXCEPT !.op = "exit"]
    /\ UNCHANGED <<editor, file, config, upstream>>

Next ==
    \/ Discover
    \/ UpdatePyPi
    \/ UpdateGitHub
    \/ UpdateCargo
    \/ UpdateNpm
    \/ UpdateGo
    \/ UpdateGitRepository
    \/ Finish

Spec == Init /\ [][Next]_vars


(***************************************************************************)
(* The skip test of the strategies and the repetition of a run.            *)
(***************************************************************************)

\* the strategy main dispatches the package to
StrategyOf(pkg) ==
    IF pkg.kind # "Cargo" THEN pkg.kind
    ELSE IF contains_function_call(pkg.ast, kFetchCrate) THEN "Crate"
    ELSE "CargoGit"

RevisionBased == {"CargoGit", "Go", "Npm", "Git"}

\* the recipe's current identity: its version, or its revision
CurrentIdentity(pkg) ==
    IF StrategyOf(pkg) \in RevisionBased THEN get(from_ast(pkg.ast), kRev)
    ELSE Some(pkg.version)

\* what latest_commit found, if it found anything
CommitFound(lc) == IF lc.ok THEN lc.v ELSE None

\* the latest identity the outside world up reports to the package's strategy
LatestIdentity(pkg, up) ==
    CASE StrategyOf(pkg) = "PyPi" ->
           IF up.pypi.some THEN Some(up.pypi.v.version) ELSE None
      [] StrategyOf(pkg) = "Crate" -> up.crates
      [] StrategyOf(pkg) = "GitHub" ->
           IF up.release.ok /\ up.release.v.some
           THEN Some(TrimStartMatches(up.release.v.v, "v")) ELSE None
      [] StrategyOf(pkg) = "Git" -> IF up.nurl.some THEN up.nurl.v.rev ELSE None
      [] OTHER -> CommitFound(latest_commit(up.refs))

\* both identities are known and they are the same text
Same(current, latest) == current.some /\ latest.some /\ current.v = latest.v

SameIdentity(pkg, up) == Same(CurrentIdentity(pkg), LatestIdentity(pkg, up))

\* the prefetch of the plain git strategy reports the recipe's own hash and
\* the recipe's own revision (none on both sides included)
SameSource(pkg, up) ==
    /\ up.nurl.some
    /\ pkg.nix_hash = up.nurl.v.hash
    /\ get(from_ast(pkg.ast), kRev) = up.nurl.v.rev

\* the run was skipped: marked UpToDate, buffer not edited, nothing written
Skipped(run) ==
    /\ "UpToDate" \in run.status
    /\ run.content = from_ast(run.pkg.ast).content
    /\ run.writes = 0
    /\ run.lock = None
    /\ run.after = run.before

LastRun == last.runs[Len(last.runs)]

\* C7 (as stated): for every strategy the recipe is skipped if and only if
\* its current identity equals the latest upstream identity and force is not
\* set.
C7_SkipIffSameIdentity ==
    last.op = "update" =>
        (Skipped(LastRun) <=> (SameIdentity(LastRun.pkg, upstream) /\ ~config.force))

\* what has to be the same for the strategy of pkg to skip
SkipCondition(pkg, up) ==
    IF StrategyOf(pkg) = "Git" THEN SameSource(pkg, up) ELSE SameIdentity(pkg, up)

\* C7 (amended): the recipe is skipped if and only if force is not set and,
\* for the plain git strategy, both its hash and its revision equal the ones
\* the prefetch reports; for the six other strategies, its current identity
\* and the latest upstream identity are both known and equal.
C7_SkipIffSameIdentityAndHash ==
    last.op = "update" =>
        (Skipped(LastRun) <=> (SkipCondition(LastRun.pkg, upstream) /\ ~config.force))

\* the plain git strategy has edited and written a recipe whose revision is
\* the upstream one, force not set
C7_Witness ==
    /\ last.op = "update"
    /\ StrategyOf(LastRun.pkg) = "Git"
    /\ ~config.force
    /\ SameIdentity(LastRun.pkg, upstream)
    /\ ~Skipped(LastRun)
    /\ LastRun.writes = 1

\* C8 (as stated): for every strategy, two runs in succession on a recipe
\* whose current identity equals the upstream identity, without force, are
\* UpToDate both times and leave the recipe file byte-identical, with no
\* write.
C8_TwiceUpToDate ==
    (~config.force /\ Len(last.runs) > 0 /\ SameIdentity(last.runs[1].pkg, upstream)) =>
        \A i \in 1..Len(last.runs) :
            /\ Skipped(last.runs[i])
            /\ last.runs[i].after = last.runs[1].before
            /\ file = last.runs[1].before

\* C8 (amended): two runs in succession without force on a recipe whose
\* current identity equals the upstream identity (for the plain git strategy:
\* whose hash and revision both equal the ones the prefetch reports) are
\* UpToDate both times and leave the recipe file byte-identical, with no
\* write.
C8_TwiceUpToDateSameSource ==
    (~config.force /\ Len(last.runs) > 0 /\ SkipCondition(last.runs[1].pkg, upstream)) =>
        \A i \in 1..Len(last.runs) :
            /\ Skipped(last.runs[i])
            /\ last.runs[i].after = last.runs[1].before
            /\ file = last.runs[1].before

\* the plain git strategy has run twice on a recipe that is the upstream
\* source, and was UpToDate both times
C8_Witness ==
    /\ Len(last.runs) = MaxRuns
    /\ ~config.force
    /\ StrategyOf(last.runs[1].pkg) = "Git"
    /\ SkipCondition(last.runs[1].pkg, upstream)
    /\ \A i \in 1..MaxRuns : "UpToDate" \in last.runs[i].status

(***************************************************************************)
(* An UpdateResult under the calls of its methods, src/package.rs.  The    *)
(* result lives in package.result; steps counts the calls.                 *)
(***************************************************************************)

\* the number of method calls on one UpdateResult
MaxCalls == 3

Messages == {"Build failed", "nurl failed"}

VersionTexts == {V1, V2}

CommitTexts == {Some(Rev1), Some(Rev2)}

InitResult ==
    /\ package = [result |-> DefaultResult]
    /\ last = [op |-> "default"]
    /\ steps = 0
    /\ editor = None
    /\ file = <<>>
    /\ config = [force |-> FALSE]
    /\ upstream = None

\* one more method call returned with the result r
Called(op, r) ==
    /\ package' = [package EXCEPT !.result = r]
    /\ last' = [op |-> op]
    /\ steps' = steps + 1
    /\ UNCHANGED <<editor, file, config, upstream>>

CallFailed ==
    /\ steps < MaxCalls
    /\ \E m \in Messages : Called("failed", failed(package.result, m))

CallMessage ==
    /\ steps < MaxCalls
    /\ \E m \in Messages : Called("message", message(package.result, m))

CallSuccess ==
    /\ steps < MaxCalls
    /\ Called("success", success(package.result))

CallUpToDate ==
    /\ steps < MaxCalls
    /\ Called("up_to_date", up_to_date(package.result))

CallVersion ==
    /\ steps < MaxCalls
    /\ \E old \in VersionTexts, new \in VersionTexts :
           Called("version", version(package.result, old, new))

CallGitCommit ==
    /\ steps < MaxCalls
    /\ \E old \in CommitTexts, new \in CommitTexts :
           Called("git_commit", git_commit(package.result, old, new))

NextResult ==
    \/ CallFailed
    \/ CallMessage
    \/ CallSuccess
    \/ CallUpToDate
    \/ CallVersion
    \/ CallGitCommit

SpecResult == InitResult /\ [][NextResult]_vars

\* C15: after any sequence of failed, success, up_to_date, message, version
\* and git_commit calls the status set never holds Failed together with
\* Updated or with UpToDate
C15_FailedExclusive ==
    "Failed" \in package.result.status
    => /\ "Updated" \notin package.result.status
       /\ "UpToDate" \notin package.result.status

(***************************************************************************)
(* The outcome of one strategy call in the run of the program (Spec).      *)
(***************************************************************************)

\* C16: Updated is in a recipe's result only if the strategy ran to its end
\* and its write put the editor's buffer into the recipe file; a strategy
\* that returned early or whose write failed has not set Updated
C16_UpdatedOnlyAfterWrite ==
    (last.op = "update" /\ "Updated" \in LastRun.status)
    => /\ LastRun.ok
       /\ LastRun.writes >= 1
       /\ LastRun.after = LastRun.content

\* a strategy has edited the recipe, written it and marked the result Updated
C16_Witness ==
    /\ last.op = "update"
    /\ "Updated" \in package.result.status
    /\ LastRun.writes = 1
    /\ file # LastRun.before
    /\ file = editor.content

\* C17: whenever a strategy's edit, query or file write fails, the recipe's
\* result ends with the Failed status and a message; no error is dropped
\* leaving the result without Failed
C17_ErrorsEndFailed ==
    (last.op = "update" /\ ~LastRun.ok)
    => /\ "Failed" \in package.result.status
       /\ package.result.message.some

(***************************************************************************)
(* Ast::get on the recipes: the order of its scopes.                       *)
(***************************************************************************)

\* a recipe whose inherit declaration of version comes before the let that
\* binds it
RecipeInheritFirst ==
    <<"{", " ", "m", "e", "t", "a", " ", "=", " ", "{", " ", "i", "n", "h", "e", "r", "i", "t", " ", "v", "e", "r", "s", "i", "o", "n", ";", " ", "}", ";", "\n", " ", " ", "s", "r", "c", " ", "=", " ", "l", "e", "t", " ", "v", "e", "r", "s", "i", "o", "n", " ", "=", " ", "\"", "1", ".", "0", "\"", ";", " ", "i", "n", " ", "f", ";", "\n", " ", " ", "h", "a", "s", "h", " ", "=", " ", "\"", "h", "1", "\"", ";", "\n", "}">>

\* a recipe that only inherits version
RecipeInheritOnly ==
    <<"{", " ", "i", "n", "h", "e", "r", "i", "t", " ", "v", "e", "r", "s", "i", "o", "n", ";", "\n", " ", " ", "h", "a", "s", "h", " ", "=", " ", "\"", "h", "1", "\"", ";", "\n", "}">>

GetRecipes == Recipes \cup PkgRecipes \cup {RecipeInheritFirst, RecipeInheritOnly}

kSrc == <<"s", "r", "c">>
kRepo == <<"r", "e", "p", "o">>

GetNames == {kVersion, kHash, kRev, kPname, kSrc, kRepo}

InitGet ==
    /\ file \in GetRecipes
    /\ editor = from_ast(Parse(file))
    /\ last = [op |-> "init"]
    /\ steps = 0
    /\ config = [force |-> FALSE]
    /\ upstream = None
    /\ package = None

\* Ast::get(field_name) on the editor
Get(field_name) ==
    /\ steps < MaxOps
    /\ last' = [op |-> "get", name |-> field_name, v |-> get(editor, field_name)]
    /\ steps' = steps + 1
    /\ UNCHANGED <<editor, file, config, upstream, package>>

NextGet == \E field_name \in GetNames : Get(field_name)

SpecGet == InitGet /\ [][NextGet]_vars

\* the values (string, or identifier text) of the entries named name of the
\* attribute sets
SetValuesOf(ast, name) ==
    LET sets == Range(OfKind(Descendants(ast.root), "NODE_ATTR_SET"))
        entries == {e \in UNION {Range(s.children) : s \in sets} :
                      e.kind = "NODE_ATTRPATH_VALUE" /\ EntryNamed(ast, e, name)}
    IN  {extract_string_value(ast, v) :
           v \in {c \in UNION {Range(e.children) : e \in entries} : c.kind = "NODE_STRING"}}
        \cup {Text(ast, v) :
                v \in {c \in UNION {Range(e.children) : e \in entries} : c.kind = "NODE_IDENT"}}

\* the strings of the let bindings named name
LetValuesOf(ast, name) ==
    LET lets == Range(OfKind(Descendants(ast.root), "NODE_LET_IN"))
        bindings == UNION {Range(LetBindings(ast, l, name)) : l \in lets}
    IN  {extract_string_value(ast, v) :
           v \in {c \in UNION {Range(b.children) : b \in bindings} : c.kind = "NODE_STRING"}}

\* C20: Ast::get(name) returns the value of an attribute-set entry named name
\* when one exists; otherwise the string of a let binding named name when one
\* exists, wherever inherit declarations of name appear; otherwise not-found
C20_ScopeOrder ==
    last.op = "get"
    => IF SetValuesOf(editor.ast, last.name) # {}
       THEN last.v.some /\ last.v.v \in SetValuesOf(editor.ast, last.name)
       ELSE IF LetValuesOf(editor.ast, last.name) # {}
       THEN last.v.some /\ last.v.v \in LetValuesOf(editor.ast, last.name)
       ELSE last.v = None

\* C20 on the buffers in which no inherit declaration of the name comes
\* before a let that binds it
C20_ScopeOrderLetFirst ==
    (last.op = "get" /\ file # RecipeInheritFirst) => C20_ScopeOrder

(***************************************************************************)
(* The final build and the cache push, src/nix/builder.rs.  The outside    *)
(* world env answers each boundary call:                                   *)
(*   mkdir_ok   fs::create_dir_all succeeded                               *)
(*   build      "error" (the builder could not be started), "success" or   *)
(*              "failure" (its exit status)                                *)
(*   log_ok     the log file could be written                              *)
(*   path_info  "error" (could not be started), "success" or "failure"     *)
(*   paths      the standard output of the path query                      *)
(*   push_ok    the exit status of the cachix push calls                   *)
(* A call returns [ok, v, events]: Ok(v) or Err, and the boundary calls it *)
(* made, in order.                                                         *)
(***************************************************************************)

\* one cachix push per non-empty line of the path listing
PushEvents(lines) ==
    [j \in 1..Len(SelectSeq(lines, LAMBDA l : l # <<>>)) |-> "cachix push"]

\* push_to_cachix: Err if the path query could not be started; the outcome
\* of the push calls is discarded
push_to_cachix(env) ==
    IF env.path_info = "error" THEN [ok |-> FALSE, events |-> <<"nix path-info">>]
    ELSE IF env.path_info = "success"
    THEN [ok |-> TRUE, events |-> <<"nix path-info">> \o PushEvents(Lines(env.paths))]
    ELSE [ok |-> TRUE, events |-> <<"nix path-info">>]

\* push_to_cachix(package, config)?; Ok(true)
BuildPushed(events, pushed) ==
    [ok |-> pushed.ok, v |-> pushed.ok, events |-> events \o pushed.events]

\* build_package once the log is written
BuildLogged(cache, env, events) ==
    IF env.build = "success"
    THEN IF cache THEN BuildPushed(events, push_to_cachix(env))
         ELSE [ok |-> TRUE, v |-> TRUE, events |-> events]
    ELSE [ok |-> TRUE, v |-> FALSE, events |-> events]

\* build_package
build_package(cache, env) ==
    IF ~env.mkdir_ok THEN [ok |-> FALSE, v |-> FALSE, events |-> <<"create_dir_all">>]
    ELSE IF env.build = "error"
    THEN [ok |-> FALSE, v |-> FALSE, events |-> <<"create_dir_all", "nix build">>]
    ELSE IF ~env.log_ok
    THEN [ok |-> FALSE, v |-> FALSE,
          events |-> <<"create_dir_all", "nix build", "write log">>]
    ELSE BuildLogged(cache, env, <<"create_dir_all", "nix build", "write log">>)

ProcessOutcomes == {"error", "success", "failure"}

PathListings == {<<>>, <<"/", "n", "i", "x", "/", "a">>, <<"/", "n", "i", "x", "/", "a", "\n", "\n", "/", "n", "i", "x", "/", "b">>}

BuildWorlds ==
    [mkdir_ok : BOOLEAN, build : ProcessOutcomes, log_ok : BOOLEAN,
     path_info : ProcessOutcomes, paths : PathListings, push_ok : BOOLEAN]

InitBuild ==
    /\ upstream \in BuildWorlds
    /\ config \in [cache : BOOLEAN]
    /\ last = [op |-> "init"]
    /\ steps = 0
    /\ editor = None
    /\ file = <<>>
    /\ package = None

\* build_package(package, build_results_dir, cache, config)
BuildPackage ==
    /\ steps = 0
    /\ last' = [op |-> "build_package"] @@ build_package(config.cache, upstream)
    /\ steps' = 1
    /\ UNCHANGED <<editor, file, config, upstream, package>>

NextBuild == BuildPackage

SpecBuild == InitBuild /\ [][NextBuild]_vars

\* the call asked for the store paths or pushed one
PushAttempted(events) ==
    \E j \in 1..Len(events) : events[j] \in {"nix path-info", "cachix push"}

\* the verification build ran and succeeded, and its log was written
BuildSucceeded(env) == env.mkdir_ok /\ env.build = "success" /\ env.log_ok

\* C19: a cache push is attempted only after the verification build
\* succeeded and only when caching is enabled; a failed build or disabled
\* caching never leads to a push; a push failure does not turn a successful
\* build into a failed one
C19_CacheGating ==
    last.op = "build_package"
    => /\ PushAttempted(last.events) => (BuildSucceeded(upstream) /\ config.cache)
       /\ BuildSucceeded(upstream) => (last.ok /\ last.v)

\* C19 without its last part: the gating of the push alone
C19_PushOnlyAfterBuild ==
    last.op = "build_package"
    => /\ PushAttempted(last.events) => (BuildSucceeded(upstream) /\ config.cache)
       /\ (BuildSucceeded(upstream) /\ upstream.path_info # "error")
          => (last.ok /\ last.v)

(***************************************************************************)
(* The batch: main's parallel loop over the discovered packages, one       *)
(* worker per package, then the report and the removal of the build logs.  *)
(* package[i] is the i-th discovered Package with its worker's position,   *)
(* file[p] the recipe file at path p, upstream[i] the outside world the    *)
(* i-th worker meets, last the state of the main thread.                   *)
(***************************************************************************)

BatchSize == 2

Workers == 1..BatchSize

WalkPathShared(i) == 1

\* the path of the i-th entry of the walk: every file is yielded once
WalkPath(i) == i

\* the worlds the verification build of a batch is run in
BatchBuilds ==
    {[mkdir_ok |-> TRUE, build |-> b, log_ok |-> TRUE, path_info |-> q,
      paths |-> <<"/", "n", "i", "x", "/", "a">>, push_ok |-> TRUE] :
        b \in {"success", "failure"}, q \in {"success", "failure"}}
    \ {[mkdir_ok |-> TRUE, build |-> "failure", log_ok |-> TRUE, path_info |-> "failure",
         paths |-> <<"/", "n", "i", "x", "/", "a">>, push_ok |-> TRUE]}

NurlNew == Some([hash |-> H9, rev |-> Some(Rev2)])

\* the recipe and the registry answers a worker of the batch is run against
BatchCases ==
    {[content |-> PkgGit, up |-> [UpBase EXCEPT !.nurl = None]],
     [content |-> PkgGit, up |-> [UpBase EXCEPT !.nurl = Some([hash |-> H1, rev |-> Some(Rev1)])]],
     [content |-> PkgGit, up |-> [UpBase EXCEPT !.nurl = NurlNew]],
     [content |-> PkgGit, up |-> [UpBase EXCEPT !.nurl = NurlNew, !.write_ok = FALSE]],
     [content |-> PkgGitCargo, up |-> [UpBase EXCEPT !.nurl = NurlNew]],
     [content |-> PkgPyPi,
      up |-> [UpBase EXCEPT !.pypi = Some([version |-> V2,
                                           releases |-> Some(<<[filename |-> <<"p", "-", "l", "i", "n", ".", "w", "h", "l">>, url |-> <<"w">>]>>)])]]}

\* match package.kind { ... } of the worker
UpdateOf(pkg, force, up, content) ==
    CASE pkg.kind = "PyPi" -> PyPiUpdater_update(pkg, force, up, content)
      [] pkg.kind = "GitHub" -> GitHubRelease_update(pkg, force, up, content)
      [] pkg.kind = "Cargo" -> Cargo_update(pkg, force, up, content)
      [] pkg.kind = "Npm" -> NpmUpdater_update(pkg, force, up, content)
      [] pkg.kind = "Go" -> GoUpdater_update(pkg, force, up, content)
      [] OTHER -> GitRepository_update(pkg, force, up, content)

\* the calls of UpdateOf on the recipes of a batch as they are discovered
BatchCalls ==
    {[pkg |-> discover(c.content), force |-> f, up |-> c.up, content |-> c.content] :
        c \in BatchCases, f \in BOOLEAN}

\* their outcomes, computed once
BatchOutcomes == [k \in BatchCalls |-> UpdateOf(k.pkg, k.force, k.up, k.content)]

\* UpdateOf, looked up among the outcomes computed once if it is there
UpdateOnce(k) ==
    IF k \in BatchCalls THEN BatchOutcomes[k]
    ELSE UpdateOf(k.pkg, k.force, k.up, k.content)

BuildGateAlways(result, cfg) == TRUE

\* the condition under which the worker calls build_package
BuildGate(result, cfg) ==
    "Updated" \in result.status \/ cfg.force \/ cfg.build_only

\* what the build stage leaves in the result: Built after a successful
\* build, Cached after a push, Failed after a failed build
BuildStage(result, cache, built) ==
    IF built.ok /\ built.v
    THEN [result EXCEPT !.status =
            @ \cup {"Built"}
              \cup (IF cache /\ "cachix push" \in Range(built.events)
                    THEN {"Cached"} ELSE {})]
    ELSE failed(result, "build failed")

\* Package::is_up_to_date
is_up_to_date(pkg) == "UpToDate" \in pkg.result.status

\* the early return of main: no package needed updating
NothingToDo(pkgs) == \A i \in Workers : "UpToDate" \in pkgs[i].result.status

\* the rows of the report: the packages that are not up to date
ReportRows(pkgs) ==
    SelectSeq([i \in Workers |-> i], LAMBDA i : ~is_up_to_date(pkgs[i]))

CleanupGateAny(pkgs) == \E i \in Workers : "Built" \in pkgs[i].result.status

\* the condition under which main removes the build logs
CleanupGate(pkgs) == \A i \in Workers : "Built" \in pkgs[i].result.status

InitBatch ==
    /\ \E cs \in [Workers -> BatchCases], bs \in [Workers -> BatchBuilds] :
         /\ file = [p \in Workers |-> cs[p].content]
         /\ upstream = [i \in Workers |-> [content |-> cs[i].content, up |-> cs[i].up,
                                          build |-> bs[i]]]
         /\ package = [i \in Workers |->
                         [pkg |-> discover(cs[i].content), path |-> WalkPath(i),
                          pc |-> "update", stages |-> <<>>]]
    /\ editor = [i \in Workers |-> None]
    /\ config \in [force : BOOLEAN, build_only : BOOLEAN, cache : BOOLEAN]
    /\ last = [op |-> "par_iter_mut", actor |-> 0, dir |-> "absent", report |-> None]
    /\ steps = 0

\* the stage the worker went through, with the status it entered it with
Stage(name, pkg) == [stage |-> name, status |-> pkg.result.status]

\* the strategy of worker i returned with rs; an Err is discarded
WorkerUpdated(i, rs) ==
    /\ package' = [package EXCEPT ![i].pkg.result = rs.result, ![i].pc = "gate",
                                  ![i].stages = Append(@, [stage |-> "update",
                                      status |-> package[i].pkg.result.status,
                                      left |-> rs.result.status,
                                      ok |-> rs.ok, writes |-> rs.writes,
                                      oracle |-> Len(rs.oracle)])]
    /\ file' = [file EXCEPT ![package[i].path] = rs.file]
    /\ editor' = [editor EXCEPT ![i] = rs.a]

\* worker i: the update stage, skipped under --build-only
WorkerUpdate(i) ==
    /\ package[i].pc = "update"
    /\ IF config.build_only
       THEN /\ package' = [package EXCEPT ![i].pc = "gate"]
            /\ UNCHANGED <<file, editor>>
       ELSE WorkerUpdated(i, UpdateOnce([pkg |-> package[i].pkg, force |-> config.force,
                                         up |-> upstream[i].up,
                                         content |-> file[package[i].path]]))
    /\ last' = [last EXCEPT !.actor = i]
    /\ UNCHANGED <<steps, config, upstream>>

\* worker i: build_package(package, &pb, &build_path, config.cache)
WorkerBuild(i) ==
    /\ package[i].pc = "gate"
    /\ BuildGate(package[i].pkg.result, config)
    /\ package' = [package EXCEPT
                     ![i].pkg.result = BuildStage(@, config.cache,
                                          build_package(config.cache, upstream[i].build)),
                     ![i].pc = "done",
                     ![i].stages = Append(@, Stage("build", package[i].pkg))]
    /\ last' = [last EXCEPT !.actor = i, !.dir = "present"]
    /\ UNCHANGED <<editor, file, steps, config, upstream>>

WorkerDoneAfterOthers(i) ==
    /\ package[i].pc = "gate"
    /\ ~BuildGate(package[i].pkg.result, config)
    /\ \A j \in Workers : package[j].pc # "update"
    /\ package' = [package EXCEPT ![i].pc = "done"]
    /\ last' = [last EXCEPT !.actor = i]
    /\ UNCHANGED <<editor, file, steps, config, upstream>>

\* worker i: the package is not built
WorkerDone(i) ==
    /\ package[i].pc = "gate"
    /\ ~BuildGate(package[i].pkg.result, config)
    /\ package' = [package EXCEPT ![i].pc = "done"]
    /\ last' = [last EXCEPT !.actor = i]
    /\ UNCHANGED <<editor, file, steps, config, upstream>>

\* the packages vector of main
Packages == [i \in Workers |-> package[i].pkg]

\* main after the loop: the early return, or the report and the cleanup
Report ==
    /\ steps = 0
    /\ \A i \in Workers : package[i].pc = "done"
    /\ last' = IF NothingToDo(Packages)
               THEN [last EXCEPT !.op = "return", !.actor = 0]
               ELSE [op |-> "report", actor |-> 0,
                     report |-> Some(ReportRows(Packages)),
                     dir |-> IF CleanupGate(Packages)
                             THEN (IF last.dir = "present" THEN "removed" ELSE "panic")
                             ELSE last.dir]
    /\ steps' = 1
    /\ UNCHANGED <<editor, file, config, upstream, package>>

NextBatch ==
    \/ \E i \in Workers : WorkerUpdate(i)
    \/ \E i \in Workers : WorkerBuild(i)
    \/ \E i \in Workers : WorkerDone(i)
    \/ Report

SpecBatch == InitBatch /\ [][NextBatch]_vars

\* worker i went through the build stage
Built(i) == \E j \in 1..Len(package[i].stages) : package[i].stages[j].stage = "build"

\* the status of recipe i when its worker decided whether to build it
GateStatus(i) ==
    IF Built(i)
    THEN package[i].stages[Len(package[i].stages)].status
    ELSE package[i].pkg.result.status

\* C13: a recipe enters the build stage exactly when its result contains
\* Updated or the force flag is set; an UpToDate or Failed recipe without
\* force is never built
C13_BuildGating ==
    \A i \in Workers :
        package[i].pc = "done"
        => (Built(i) <=> ("Updated" \in GateStatus(i) \/ config.force))

\* C13 with the build-only flag: a recipe enters the build stage exactly when
\* its result contains Updated, the force flag is set or the build-only flag
\* is set
C13_BuildGatingBuildOnly ==
    \A i \in Workers :
        package[i].pc = "done"
        => (Built(i) <=> ("Updated" \in GateStatus(i) \/ config.force
                          \/ config.build_only))

\* a recipe that was not updated is built under the build-only flag alone,
\* and another is left unbuilt
C13_Witness ==
    /\ config.build_only /\ ~config.force
    /\ package[1].pc = "done" /\ Built(1) /\ "Updated" \notin GateStatus(1)
    /\ package[2].pc = "update"

\* a recipe that is up to date is left unbuilt
C13_WitnessUnbuilt ==
    \E i \in Workers :
        package[i].pc = "done" /\ ~Built(i) /\ "UpToDate" \in GateStatus(i)

\* C14: once a recipe's result contains Failed no further stage runs for it
\* (no file write, no build, no cache push) and no other status flag is
\* added, also when the force flag is set
C14_FailedIsTerminal ==
    [][\A i \in Workers :
         "Failed" \in package[i].pkg.result.status
         => /\ package'[i].stages = package[i].stages
            /\ package'[i].pkg.result = package[i].pkg.result
            /\ file'[package[i].path] = file[package[i].path]]_vars

\* C14 without the force and build-only flags: a recipe whose update stage
\* ended Failed goes through no further stage
C14_FailedIsTerminalUnforced ==
    [][(~config.force /\ ~config.build_only)
       => \A i \in Workers :
            "Failed" \in package[i].pkg.result.status
            => /\ package'[i].stages = package[i].stages
               /\ package'[i].pkg.result = package[i].pkg.result
               /\ file'[package[i].path] = file[package[i].path]]_vars

\* within the update stage: no strategy that marked the recipe Failed wrote
\* the recipe file afterwards
C14_NoWriteAfterFailed ==
    \A i \in Workers :
        \A j \in 1..Len(package[i].stages) :
            (package[i].stages[j].stage = "update" /\ "Failed" \in package[i].stages[j].left)
            => package[i].stages[j].writes = 0

C12_WitnessRetained ==
    /\ steps = 1
    /\ last.dir = "present"
    /\ \E i \in Workers : "Built" \in package[i].pkg.result.status
    /\ \E i \in Workers : "Built" \notin package[i].pkg.result.status

\* the update stage of worker i marked the recipe Failed or returned an error
FailedAtUpdate(i) ==
    /\ Len(package[i].stages) >= 1
    /\ package[i].stages[1].stage = "update"
    /\ ("Failed" \in package[i].stages[1].left \/ ~package[i].stages[1].ok)

\* the result recipe i ends with when its worker runs with no other worker
AloneUpdated(i, pkg) ==
    IF config.build_only THEN pkg.result
    ELSE UpdateOf(pkg, config.force, upstream[i].up, upstream[i].content).result

AloneBuilt(i, result) ==
    IF BuildGate(result, config)
    THEN BuildStage(result, config.cache, build_package(config.cache, upstream[i].build))
    ELSE result

AloneResult(i) == AloneBuilt(i, AloneUpdated(i, discover(upstream[i].content)))

\* the number of rows of the report that show recipe i
RowsOf(i) ==
    IF last.report.some
    THEN Cardinality({j \in 1..Len(last.report.v) : last.report.v[j] = i})
    ELSE 0

\* C11: in a batch in which one recipe fails at the update step, every
\* recipe of the batch is shown in the final report exactly once, and every
\* other recipe ends with the Built/Cached outcome it has when run alone,
\* under every interleaving of the workers
C11_Isolation ==
    (steps = 1 /\ \E k \in Workers : FailedAtUpdate(k))
    => /\ \A i \in Workers : RowsOf(i) = 1
       /\ \A i \in Workers : ~FailedAtUpdate(i) => package[i].pkg.result = AloneResult(i)

\* C11 without the report: every recipe of a finished batch ends with the
\* result it has when run alone
C11_OutcomesIsolated ==
    steps = 1 => \A i \in Workers : package[i].pkg.result = AloneResult(i)

\* C11 for the recipes that are not up to date: each is shown exactly once
C11_ReportedOnce ==
    (steps = 1 /\ \E k \in Workers : FailedAtUpdate(k))
    => \A i \in Workers : RowsOf(i) = (IF is_up_to_date(package[i].pkg) THEN 0 ELSE 1)

\* C18: each recipe (its buffer, its result and its file) is read and
\* written by exactly one worker: every step that changes recipe i's file,
\* package or buffer is a step of worker i, and the file a worker starts
\* its update from is its own recipe as it was discovered, untouched by the
\* other workers
C18_ExclusiveOwnership ==
    [][\A i \in Workers :
         /\ (file'[i] # file[i] \/ package'[i] # package[i] \/ editor'[i] # editor[i])
            => last'.actor = i
         /\ (package[i].pc = "update" /\ package'[i].pc = "gate")
            => file[package[i].path] = upstream[i].content]_vars

\* both workers have edited and written their recipe files
C18_Witness ==
    \A i \in Workers :
        /\ package[i].pc # "update"
        /\ file[i] # upstream[i].content
        /\ editor[i] # None

(***************************************************************************)
(* Properties of Ast::update_git and Ast::update_vendor, stated over the   *)
(* string values of the attributes in document order.                      *)
(***************************************************************************)

\* the attribute entries named name that hold a direct string, in document
\* order
StringEntries(ast, name) ==
    SelectSeq(OfKind(Descendants(ast.root), "NODE_ATTRPATH_VALUE"),
              LAMBDA e : EntryNamed(ast, e, name)
                         /\ \E s \in Range(e.children) : s.kind = "NODE_STRING")

\* the string node of such an entry
StringOf(e) == CHOOSE s \in Range(e.children) : s.kind = "NODE_STRING"

\* the values of the attributes named name, in document order
ValuesNamed(a, name) ==
    [j \in 1..Len(StringEntries(a.ast, name)) |->
        extract_string_value(a.ast, StringOf(StringEntries(a.ast, name)[j]))]

\* vals with its first element equal to old replaced by new
FirstReplaced(vals, old, new) ==
    IF \E j \in 1..Len(vals) : vals[j] = old
    THEN [vals EXCEPT ![CHOOSE j \in 1..Len(vals) :
                          vals[j] = old /\ \A k \in 1..(j - 1) : vals[k] # old] = new]
    ELSE vals

\* the revision step of the last update_git call was to be taken
RevStepGiven == last.old_rev.some /\ Len(last.new_rev) > 0

\* no string of an attribute named name is interpolated
NoneInterpolated(a, name) == InterpolatedNamed(a.ast, name) = {}

\* the version values expected after the revision step
VersionRewritten(pre, cv, old_rev, new_rev) ==
    IF cv.some /\ Contains(cv.v, old_rev)
    THEN FirstReplaced(ValuesNamed(pre, kVersion), cv.v, ReplaceAll(cv.v, old_rev, new_rev))
    ELSE ValuesNamed(pre, kVersion)

AfterRevStep == GitRevStep(last.pre, last.old_rev, last.new_rev)

\* the hash the last update_git call was to replace: the explicit old_hash
\* argument, otherwise the current hash attribute
OldHashValue ==
    IF last.old_hash.some THEN last.old_hash.v
    ELSE UnwrapOrDefault(get(AfterRevStep.a, kHash))

\* both the old and the new hash of the last update_git call are non-empty
HashStepGiven == Len(OldHashValue) > 0 /\ Len(last.new_hash) > 0

\* the hash attribute was replaced: its first value equal to the old hash
\* became new_hash
HashReplaced ==
    /\ \E j \in 1..Len(ValuesNamed(last.pre, kHash)) :
         ValuesNamed(last.pre, kHash)[j] = OldHashValue
    /\ ValuesNamed(editor, kHash)
         = FirstReplaced(ValuesNamed(last.pre, kHash), OldHashValue, last.new_hash)

\* the call succeeded, left the hash attributes alone and kept the revision edit
HashSkipped ==
    /\ last.ok
    /\ ValuesNamed(editor, kHash) = ValuesNamed(last.pre, kHash)
    /\ editor = AfterRevStep.a

\* the last call was an update_git whose revision step did not fail, on a
\* buffer without interpolated hash strings
HashStepReached ==
    /\ last.op = "update_git"
    /\ AfterRevStep.ok
    /\ NoneInterpolated(last.pre, kHash)

VendorAttr == last.hash_type \o kHashSuffix

\* the last call was an update_vendor whose build failed with a hash after
\* "got:", on a buffer in which no string of <label>Hash is interpolated
VendorGotHash ==
    /\ last.op = "update_vendor"
    /\ last.wrote
    /\ ~last.build.success
    /\ VendorHash(last.build.stderr).some
    /\ NoneInterpolated(last.pre, VendorAttr)




\* the existing <label>Hash was replaced by the hash the builder reported
VendorReplaced ==
    /\ last.ok
    /\ ValuesNamed(editor, VendorAttr)
         = FirstReplaced(ValuesNamed(last.pre, VendorAttr), get(last.pre, VendorAttr).v,
                         VendorHash(last.build.stderr).v)

\* C23: when the builder fails with a `got:` hash, Ast::update_vendor
\* replaces the attribute <label>Hash if it exists, using its current value
\* as the old value; if it does not exist the call falls back to replacing
\* the literal empty assignment of <label>Hash and returns success: it does
\* not fail with the not-found error
C23_VendorFallback ==
    VendorGotHash
    => IF get(last.pre, VendorAttr).some
       THEN VendorReplaced
       ELSE /\ last.ok
            /\ MatchesOf(last.pre, VendorAttr, <<>>) = {} => editor = last.pre

\* C23 for an existing <label>Hash alone: it is replaced through set with
\* its current value as the old value
C23_ExistingReplaced ==
    (VendorGotHash /\ get(last.pre, VendorAttr).some) => VendorReplaced

\* every update_vendor call of the run found <label>Hash declared with the
\* empty string, the strategy having set it to the empty string before
OracleAfterClear(run) ==
    \A j \in 1..Len(run.oracle) :
        /\ run.oracle[j].value = Some(<<>>)
        /\ (run.oracle[j].label \o kHashSuffix) \in run.oracle[j].cleared

\* C24: in every revision-based strategy (Cargo, Go, npm, plain git),
\* whenever Ast::update_vendor(label) is invoked the recipe declares
\* <label>Hash and its value in the buffer has been set to the empty string
\* earlier in the same strategy invocation; the oracle is run for exactly the
\* label of the attribute that was cleared
C24_ClearBeforeOracle ==
    (last.op = "update" /\ StrategyOf(LastRun.pkg) \in RevisionBased)
    => OracleAfterClear(LastRun)

\* C24 for the strategies other than plain git, on recipes that declare the
\* hash of their builder
C24_ClearBeforeOracleDeclared ==
    (last.op = "update" /\ StrategyOf(LastRun.pkg) \in {"CargoGit", "Go", "Npm", "Crate"})
    => OracleAfterClear(LastRun)

\* C25: within one run a recipe's file is written at most twice by its
\* strategy, once inside Ast::update_vendor before the oracle build and once
\* by the final Package::write; a strategy that never calls update_vendor
\* writes it at most once; a skipped (UpToDate) recipe is written zero times
C25_WriteBudget ==
    last.op = "update"
    => /\ LastRun.writes <= 2
       /\ Len(LastRun.oracle) <= 1
       /\ LastRun.writes <= Len(LastRun.oracle) + 1
       /\ "UpToDate" \in LastRun.status => (LastRun.writes = 0 /\ LastRun.after = LastRun.before)

\* a run wrote the file twice: before the oracle build and at its end
C25_Witness ==
    /\ last.op = "update"
    /\ LastRun.writes = 2
    /\ Len(LastRun.oracle) = 1
    /\ LastRun.ok
    /\ LastRun.after = LastRun.content
    /\ LastRun.after # LastRun.before

\* the steps of worker i
WorkerStep(i) == WorkerUpdate(i) \/ WorkerBuild(i) \/ WorkerDone(i)

\* the batch under a scheduler that lets every worker that can take a step
\* take it, and lets main go on once the workers have finished: every
\* external call returns
SpecBatchFair ==
    /\ InitBatch
    /\ [][NextBatch]_vars
    /\ \A i \in Workers : WF_vars(WorkerStep(i))
    /\ WF_vars(Report)

\* the number of times recipe i went through the stage
StageCount(i, name) ==
    Cardinality({j \in 1..Len(package[i].stages) : package[i].stages[j].stage = name})

\* the oracle builds of recipe i
OracleBuilds(i) ==
    IF StageCount(i, "update") = 0 THEN 0 ELSE package[i].stages[1].oracle

\* no stage of a recipe is run twice, a recipe has at most one oracle build
\* and one verification build, and a worker that has not finished can take
\* its next step whatever the other workers do
Unretried ==
    \A i \in Workers :
        /\ StageCount(i, "update") <= 1
        /\ StageCount(i, "build") <= 1
        /\ OracleBuilds(i) <= 1
        /\ package[i].pc # "done" => ENABLED WorkerStep(i)

\* every worker has finished and main is past the report and the cleanup
BatchFinished == steps = 1 /\ \A i \in Workers : package[i].pc = "done"

H2 == <<"h", "2">>
H3 == <<"h", "3">>
H8 == <<"h", "8">>

\* a PyPI recipe with a source hash and the hashes of two wheels
PyPiRecipe(top, lin, mac) ==
    <<"{", " ", "p", "n", "a", "m", "e", " ", "=", " ", "\"", "p", "\"", ";", " ", "v", "e", "r", "s", "i", "o", "n", " ", "=", " ", "\"", "1", ".", "0", "\"", ";", " ", "h", "o", "m", "e", "p", "a", "g", "e", " ", "=", " ", "\"", "u", "\"", ";", "\n", " ", " ", "s", "r", "c", " ", "=", " ", "f", "e", "t", "c", "h", "P", "y", "p", "i", " ", "{", " ", "h", "a", "s", "h", " ", "=", " ", "\"">> \o top \o <<"\"", ";", " ", "}", ";", "\n", " ", " ", "d", "i", "s", "t", "s", " ", "=", " ", "{", " ", "l", "i", "n", " ", "=", " ", "{", " ", "p", "l", "a", "t", "f", "o", "r", "m", " ", "=", " ", "\"", "l", "i", "n", "\"", ";", " ", "h", "a", "s", "h", " ", "=", " ", "\"">> \o lin \o
    <<"\"", ";", " ", "}", ";", " ", "m", "a", "c", " ", "=", " ", "{", " ", "p", "l", "a", "t", "f", "o", "r", "m", " ", "=", " ", "\"", "m", "a", "c", "\"", ";", " ", "h", "a", "s", "h", " ", "=", " ", "\"">> \o mac \o <<"\"", ";", " ", "}", ";", " ", "}", ";", "\n", "}">>

\* a GitHub-release recipe with a source hash and the hashes of two files
ReleaseRecipe(top, lin, mac) ==
    <<"{", " ", "p", "n", "a", "m", "e", " ", "=", " ", "\"", "p", "\"", ";", " ", "v", "e", "r", "s", "i", "o", "n", " ", "=", " ", "\"", "1", ".", "0", "\"", ";", " ", "h", "o", "m", "e", "p", "a", "g", "e", " ", "=", " ", "\"", "u", "\"", ";", "\n", " ", " ", "s", "r", "c", " ", "=", " ", "f", "e", "t", "c", "h", "u", "r", "l", " ", "{", " ", "u", "r", "l", " ", "=", " ", "\"", "g", "i", "t", "h", "u", "b", ".", "c", "o", "m", "/", "r", "e", "l", "e", "a", "s", "e", "s", "/", "d", "o", "w", "n", "l", "o", "a", "d", "\"", ";", " ", "h", "a", "s", "h", " ", "=", " ", "\"">> \o top \o <<"\"", ";", " ", "}", ";", "\n", " ", " ", "p", "l", "a", "t", "f", "o", "r", "m", "D", "a", "t", "a", " ", "=", " ", "{", " ", "l", "i", "n", " ", "=", " ", "{", " ", "f", "i", "l", "e", "n", "a", "m", "e", " ", "=", " ", "\"", "f", "\"", ";", " ", "h", "a", "s", "h", " ", "=", " ", "\"">> \o lin \o
    <<"\"", ";", " ", "}", ";", " ", "m", "a", "c", " ", "=", " ", "{", " ", "f", "i", "l", "e", "n", "a", "m", "e", " ", "=", " ", "\"", "g", "\"", ";", " ", "h", "a", "s", "h", " ", "=", " ", "\"">> \o mac \o <<"\"", ";", " ", "}", ";", " ", "}", ";", "\n", "}">>

\* the recipes of the per-platform runs: all hashes different, the source
\* hash the same as a block's, both blocks with the same hash
PlatformRecipes ==
    {PyPiRecipe(top, lin, mac) : top \in {H1, H2}, lin \in {H2, H3}, mac \in {H2, H3}}
        \cup {ReleaseRecipe(top, lin, mac) :
                 top \in {H1, H2}, lin \in {H2, H3}, mac \in {H2, H3}}

\* the two wheels of the new version
PlatformWheels ==
    <<[filename |-> <<"p", "-", "l", "i", "n", ".", "w", "h", "l">>, url |-> <<"w", "1">>],
      [filename |-> <<"p", "-", "m", "a", "c", ".", "w", "h", "l">>, url |-> <<"w", "2">>]>>

\* the artifact of the first and of the second platform block of a recipe
ArtifactsOf(content) ==
    IF Contains(content, kDists) THEN <<<<"w", "1">>, <<"w", "2">>>> ELSE <<<<"f">>, <<"g">>>>

\* the worlds of the per-platform runs: a new version is out, and every
\* artifact has a hash of its own or cannot be fetched
PlatformUpstreams(content) ==
    {[pypi |-> Some([version |-> V2, releases |-> Some(PlatformWheels)]),
      crates |-> None, fetchcrate |-> None,
      release |-> [ok |-> TRUE, v |-> Some(<<"v", "2", ".", "0">>)],
      refs |-> [i \in 1..MaxRefs |-> [t |-> "not_found"]],
      nurl |-> n, prefetch |-> None, package_lock |-> None,
      build |-> [success |-> TRUE, stderr |-> <<>>], write_ok |-> TRUE,
      artifacts |-> [u \in {ArtifactsOf(content)[1], ArtifactsOf(content)[2]} |->
                       IF u = ArtifactsOf(content)[1] THEN Some(h1) ELSE h2]] :
        n \in {None, Some([hash |-> H9, rev |-> None])},
        h1 \in {H3, H8}, h2 \in {None, Some(H9)}}

InitPlatforms ==
    /\ file \in PlatformRecipes
    /\ editor = from_ast(Parse(file))
    /\ config = [force |-> FALSE]
    /\ upstream \in PlatformUpstreams(file)
    /\ package = None
    /\ last = [op |-> "init", runs |-> <<>>]
    /\ steps = 0

NextPlatforms ==
    \/ Discover
    \/ UpdatePyPi
    \/ UpdateGitHub

SpecPlatforms == InitPlatforms /\ [][NextPlatforms]_vars

\* every platform block of the buffer the strategy left
BlocksAfter == platforms(editor)

\* the hash the outside world answered for the k-th block's own artifact
PrefetchedFor(k) == upstream.artifacts[ArtifactsOf(file)[k]]

\* the strategy ran its per-platform loop and every prefetch succeeded
AllPrefetched ==
    /\ last.op = "update"
    /\ LastRun.ok
    /\ \A u \in DOMAIN upstream.artifacts : upstream.artifacts[u].some

\* C27: when the per-platform loop of the GitHub-release or PyPI strategy
\* completes with every prefetch succeeding, each platform block's hash
\* equals the hash prefetched for that block's own artifact, whatever old
\* hashes the blocks and the top-level hash share
C27_PlatformWriteBack ==
    AllPrefetched =>
        /\ Len(BlocksAfter) = 2
        /\ \A k \in 1..2 : BlocksAfter[k].attributes[kHash] = PrefetchedFor(k).v

\* no two of the three old hashes are the same and no new hash is an old one
DistinctHashes(content) ==
    LET old == platforms(from_ast(Parse(content)))
        top == get(from_ast(Parse(content)), kHash)
    IN  /\ top.some
        /\ Cardinality({top.v, old[1].attributes[kHash], old[2].attributes[kHash]}) = 3
        /\ \A u \in DOMAIN upstream.artifacts :
             upstream.artifacts[u].some =>
                 upstream.artifacts[u].v \notin
                     {top.v, old[1].attributes[kHash], old[2].attributes[kHash]}

\* C27 (distinct hashes): the blocks get their own artifact's hash when the
\* old hashes are pairwise different and no prefetched hash is an old one
C27_WriteBackDistinct ==
    (AllPrefetched /\ DistinctHashes(LastRun.before)) =>
        \A k \in 1..2 : BlocksAfter[k].attributes[kHash] = PrefetchedFor(k).v

\* a per-platform run with distinct hashes went through
C27_Witness ==
    /\ AllPrefetched
    /\ DistinctHashes(LastRun.before)
    /\ package.result.new_version = Some(V2)
    /\ LastRun.writes = 1

(***************************************************************************)
(* The recipe file of a run that ended Failed.                             *)
(***************************************************************************)

\* the strategy of the last run recorded Failed in the recipe's result
RecordedFailed == last.op = "update" /\ "Failed" \in LastRun.status

\* C28: whenever a strategy records Failed in a recipe's result, the recipe
\* file on disk is byte-identical to its content before the run
C28_NoWriteOnFailure == RecordedFailed => LastRun.after = LastRun.before

\* the strategies that mark the recipe Failed inside their per-platform loop
\* and go on after the loop
BreaksOutOfLoop(pkg) == StrategyOf(pkg) \in {"PyPi", "GitHub"}

\* C28 (other strategies): a strategy without a per-platform loop that
\* records Failed has not written the recipe file
C28_NoWriteOnFailureElsewhere ==
    (RecordedFailed /\ ~BreaksOutOfLoop(LastRun.pkg))
    => (LastRun.after = LastRun.before /\ LastRun.writes = 0)

\* a crate run that failed to fetch the new crate's hash and left the file
C28_Witness ==
    /\ RecordedFailed
    /\ StrategyOf(LastRun.pkg) = "Crate"
    /\ upstream.crates = Some(V2)
    /\ file = LastRun.before

\* no later run skips, as up to date, a recipe whose earlier run ended
\* Failed
C28_NoStaleUpToDate ==
    (last.op = "update" /\ Len(last.runs) = 2 /\ "Failed" \in last.runs[1].status)
    => "UpToDate" \notin LastRun.status

(***************************************************************************)
(* The version edit after update_git in the Cargo git and npm strategies.  *)
(***************************************************************************)

\* the strategy of the run got past its queries: a commit was found, the
\* recipe was not skipped, the prefetch answered and, for npm, the lock file
\* was downloaded and saved
PastQueries(run) ==
    LET lc == latest_commit(upstream.refs)
        current == get(from_ast(run.pkg.ast), kRev)
    IN  /\ StrategyOf(run.pkg) \in {"CargoGit", "Npm"}
        /\ lc.ok /\ lc.v.some
        /\ current.some
        /\ ~should_skip_update(config.force, current.v, lc.v.v)
        /\ upstream.nurl.some
        /\ StrategyOf(run.pkg) = "Npm" => (upstream.package_lock.some /\ upstream.write_ok)

\* the strategy's state behind ast.update_git(..)?
BehindUpdateGit(run) ==
    GitStep(Start(run.pkg, run.before), get(from_ast(run.pkg.ast), kRev),
            latest_commit(upstream.refs).v.v, upstream.nurl.v.hash, None)

\* the version the strategy derives from the latest commit
DerivedVersion(run) ==
    IF StrategyOf(run.pkg) = "Npm"
    THEN NpmVersion(run.pkg, latest_commit(upstream.refs).v.v)
    ELSE short_hash(latest_commit(upstream.refs).v.v)

\* the strategy issues set("version", <version recorded at discovery>, ..)
VersionSetIssued(run) ==
    /\ PastQueries(run)
    /\ BehindUpdateGit(run).ok
    /\ StrategyOf(run.pkg) = "CargoGit" => run.pkg.version # DerivedVersion(run)

\* the outcome of that set
VersionSet(run) ==
    set(BehindUpdateGit(run).a, kVersion, run.pkg.version, DerivedVersion(run))

\* C29: in the Cargo git-based and npm strategies the set("version",
\* <version recorded at discovery>, <derived version>) issued after
\* Ast::update_git always finds its old value, also when the version embeds
\* the old revision: the strategy does not fail with NotFound at that step
C29_VersionSetFinds ==
    (last.op = "update" /\ VersionSetIssued(LastRun)) => VersionSet(LastRun).ok

\* the recorded version does not contain the recipe's revision
RevisionFree(run) ==
    ~Contains(run.pkg.version, get(from_ast(run.pkg.ast), kRev).v)

\* C29 (version without the revision): the set finds its old value when the
\* version recorded at discovery does not contain the old revision
C29_VersionSetFindsRevisionFree ==
    (last.op = "update" /\ VersionSetIssued(LastRun) /\ RevisionFree(LastRun))
    => VersionSet(LastRun).ok

\* a run whose version set found the recorded version and replaced it
C29_Witness ==
    /\ last.op = "update"
    /\ VersionSetIssued(LastRun)
    /\ RevisionFree(LastRun)
    /\ LastRun.ok
    /\ get(editor, kVersion) = Some(DerivedVersion(LastRun))

\* the latest commit is not the recipe's revision (a forced run is not
\* skipped when it is)
NewRevision(run) ==
    latest_commit(upstream.refs).v.v # get(from_ast(run.pkg.ast), kRev).v

\* a version that embeds the old revision, and a new revision: update_git
\* rewrote the version, the set does not find the recorded version and the
\* strategy returns the error without having written the file
C29_EmbeddedFails ==
    (last.op = "update" /\ VersionSetIssued(LastRun) /\ ~RevisionFree(LastRun)
        /\ NewRevision(LastRun))
    => (~VersionSet(LastRun).ok /\ ~LastRun.ok /\ LastRun.writes = 0)

(***************************************************************************)
(* The final report of main: the padding of the package names.             *)
(***************************************************************************)

\* the column the package names are padded to
kNameColumn == 30

\* a usize (64 bits on the targets nix builds for) is kept as four limbs of
\* 16 bits, the lowest first
LimbBase == 2 ^ 16

UsizeLimbs == 4

\* limb i of a length
RECURSIVE LimbOf(_, _)
LimbOf(n, i) == IF i = 1 THEN n % LimbBase ELSE LimbOf(n \div LimbBase, i - 1)

\* the usize of a length
ToUsize(n) == [i \in 1..UsizeLimbs |-> LimbOf(n, i)]

\* the borrow out of limb i of a - b
RECURSIVE Borrow(_, _, _)
Borrow(a, b, i) ==
    IF i = 0 THEN 0
    ELSE IF a[i] - b[i] - Borrow(a, b, i - 1) < 0 THEN 1 ELSE 0

\* a - b on usize in a build without overflow checks: modulo 2^64
wrapping_sub(a, b) ==
    [i \in 1..UsizeLimbs |-> (a[i] - b[i] - Borrow(a, b, i - 1) + LimbBase) % LimbBase]

\* a - b does not fit: a build with overflow checks panics on it
SubOverflows(a, b) == Borrow(a, b, UsizeLimbs) = 1

\* n > isize::MAX: no allocation of n bytes is possible, " ".repeat(n)
\* panics with a capacity overflow
ExceedsIsizeMax(n) == n[UsizeLimbs] >= LimbBase \div 2

\* Package::display_width
display_width(pkg) == Len(pkg.name)

\* the lengths of the package names of the report
NameLens == {3, 30, 31, 40}

\* the byte of the two characters the names are made of
ByteOf(c) == IF c = "a" THEN 97 ELSE 98

\* String::cmp as Ordering::Less: bytewise, a proper prefix first
RECURSIVE NameBefore(_, _)
NameBefore(x, y) ==
    IF y = <<>> THEN FALSE
    ELSE IF x = <<>> THEN TRUE
    ELSE IF Head(x) # Head(y) THEN ByteOf(Head(x)) < ByteOf(Head(y))
    ELSE NameBefore(Tail(x), Tail(y))

\* a sorted sequence of package indices with one more index sorted in
SortedIn(pkgs, sorted, i) ==
    LET k == Cardinality({j \in 1..Len(sorted) :
                            ~NameBefore(pkgs[i].name, pkgs[sorted[j]].name)})
    IN  SubSeq(sorted, 1, k) \o <<i>> \o SubSeq(sorted, k + 1, Len(sorted))

\* .sorted_by(|a, b| a.name.cmp(&b.name))
RECURSIVE sorted_by_name(_, _)
sorted_by_name(pkgs, rows) ==
    IF rows = <<>> THEN <<>>
    ELSE SortedIn(pkgs, sorted_by_name(pkgs, SubSeq(rows, 1, Len(rows) - 1)),
                  rows[Len(rows)])

\* the rows main prints, in the order it prints them
PrintedRows(pkgs) == sorted_by_name(pkgs, ReportRows(pkgs))

\* the results the parallel loop can leave in a package
ReportResults ==
    {[status |-> s] : s \in {{"UpToDate"}, {"Updated", "Built"}, {"Failed"}}}

\* the packages after the parallel loop, the build directory, and the build
\* profile of the binary (with or without overflow checks)
InitReport ==
    /\ package \in {p \in [Workers -> [name : {[i \in 1..n |-> c] : n \in NameLens,
                                                                  c \in {"a", "b"}},
                                      result : ReportResults]] :
                      p[1].name[1] # p[2].name[1]}
    /\ config \in [overflow_checks : BOOLEAN]
    /\ file = "present"
    /\ last = [op |-> "joined", rows |-> <<>>, panic |-> None]
    /\ steps = 0
    /\ editor = None
    /\ upstream = None

\* main behind the parallel loop: the early return or the header
ReportStart ==
    /\ last.op = "joined"
    /\ last' = [last EXCEPT !.op = IF NothingToDo(package) THEN "return" ELSE "header"]
    /\ UNCHANGED <<editor, file, steps, config, upstream, package>>

\* the row of pkg was printed with the padding
RowPrinted(pkg, padding) ==
    /\ last' = [last EXCEPT !.op = "row",
                            !.rows = Append(@, [name |-> pkg.name, padding |-> padding])]
    /\ steps' = steps + 1

\* the process panicked with msg
Panicked(msg) ==
    /\ last' = [last EXCEPT !.op = "panic", !.panic = Some(msg)]
    /\ steps' = steps

\* " ".repeat(n) and the println! of the row
RepeatAndPrint(pkg, n) ==
    IF ExceedsIsizeMax(n) THEN Panicked("capacity overflow")
    ELSE RowPrinted(pkg, n)

\* " ".repeat(30 - package.display_width()) of the row of pkg
PadAndPrint(pkg) ==
    IF config.overflow_checks /\ SubOverflows(ToUsize(kNameColumn), ToUsize(display_width(pkg)))
    THEN Panicked("attempt to subtract with overflow")
    ELSE RepeatAndPrint(pkg, wrapping_sub(ToUsize(kNameColumn), ToUsize(display_width(pkg))))

\* one turn of the for_each over the packages that are not up to date
PrintRow ==
    /\ last.op \in {"header", "row"}
    /\ steps < Len(PrintedRows(package))
    /\ PadAndPrint(package[PrintedRows(package)[steps + 1]])
    /\ UNCHANGED <<editor, file, config, upstream, package>>

\* the cleanup after the report, and main's return
Cleanup ==
    /\ last.op \in {"header", "row"}
    /\ steps = Len(PrintedRows(package))
    /\ file' = IF CleanupGate(package) THEN "removed" ELSE file
    /\ last' = [last EXCEPT !.op = "exit"]
    /\ UNCHANGED <<editor, steps, config, upstream, package>>

NextReport ==
    \/ ReportStart
    \/ PrintRow
    \/ Cleanup

SpecReport == InitReport /\ [][NextReport]_vars

\* the value of a usize that fits one limb
Small(n) == \A i \in 2..UsizeLimbs : n[i] = 0

\* C30: for every recipe printed in the final report the padding width, 30
\* minus the name's display width, is a non-negative integer: the unsigned
\* subtraction never underflows for any name length, names longer than 30
\* characters included, so the report and the cleanup are always reached
C30_PaddingNeverUnderflows ==
    /\ last.op # "panic"
    /\ \A r \in 1..Len(last.rows) :
         /\ Small(last.rows[r].padding)
         /\ last.rows[r].padding[1] + Len(last.rows[r].name) = kNameColumn

\* every reported package has a name of at most 30 bytes
NamesFit ==
    \A i \in Workers : ~is_up_to_date(package[i]) => display_width(package[i]) <= kNameColumn

\* C30 (names that fit): with reported names of at most 30 bytes the padding
\* is 30 minus the width and the run does not panic
C30_PaddingWhenNamesFit == NamesFit => C30_PaddingNeverUnderflows

\* a report of two rows, one of them with a name of 30 bytes, was printed
\* and main returned after the cleanup
C30_Witness ==
    /\ last.op = "exit"
    /\ NamesFit
    /\ Len(last.rows) = 2
    /\ \E r \in 1..2 : Len(last.rows[r].name) = kNameColumn /\ last.rows[r].padding = ToUsize(0)
    /\ file = "removed"

\* a reported name of more than 30 bytes: the run panics at its row in
\* either build, and the cleanup is not reached
C30_LongNamePanics ==
    (~NamesFit /\ last.op \notin {"joined", "header", "row"})
    => (last.op = "panic" /\ file = "present")

\* the rows are printed in the order of the names
C30_RowsSorted ==
    \A r \in 1..Len(last.rows) - 1 : NameBefore(last.rows[r].name, last.rows[r + 1].name)

====
